---- MODULE Spec2Model ----
(***************************************************************************)
(* A model of cubitpy's python3 side of the cubit bridge                   *)
(* (src/cubitpy/cubit_wrapper3.py, src/cubitpy/cubit_wrapper_utility.py):  *)
(* the connection CubitConnect, the proxies CubitObject / CubitObjectMain, *)
(* the messages they send over the one execnet channel, and the log file   *)
(* that is read back after each method call.                               *)
(*                                                                         *)
(* Python values are tagged tuples: <<"none">>, <<"bool", b>>,             *)
(* <<"int", n>>, <<"float", n>>, <<"str", s>>, <<"list", xs>>,             *)
(* <<"tuple", xs>>, <<"dict", keys>>, <<"proxy", p>> (a CubitObject, by    *)
(* its index in objects), numpy's <<"ndarray", xs>>, <<"np_float64", n>>,  *)
(* <<"np_int64", n>> and <<"geometry", k>> (a member of GeometryType).     *)
(***************************************************************************)
EXTENDS Integers, Sequences, FiniteSets, TLC

\* ------------------------------------------------------------------ bounds

\* The number of messages one run sends over the channel.
MaxMsgs == 6

\* The length of the lists, tuples and arrays among the values that the
\* functions on values are applied to.
MaxLen == 2

\* The number of messages a second connection sends, its first two included.
MaxPeerMsgs == 4

\* ------------------------------------------------------------ python values

PyNone == <<"none">>
PyBool(b) == <<"bool", b>>
PyInt(n) == <<"int", n>>
PyFloat(n) == <<"float", n>>
PyStr(s) == <<"str", s>>
PyList(xs) == <<"list", xs>>
PyTuple(xs) == <<"tuple", xs>>
PyDict(keys) == <<"dict", keys>>
PyProxy(p) == <<"proxy", p>>
NdArray(xs) == <<"ndarray", xs>>
NpFloat64(n) == <<"np_float64", n>>
NpInt64(n) == <<"np_int64", n>>
PyGeometry(k) == <<"geometry", k>>
PyFiniteElement(k) == <<"finite_element", k>>

Tag(v) == v[1]
Val(v) == v[2]

\* isinstance(v, int): bool is a subclass of int.
IsInt(v) == Tag(v) \in {"int", "bool"}

\* isinstance(v, float): numpy.float64 is a subclass of float, numpy.int64 is
\* no subclass of int.
IsFloat(v) == Tag(v) \in {"float", "np_float64"}

\* isinstance(v, tuple) or isinstance(v, list) or isinstance(v, np.ndarray)
IsSequence(v) == Tag(v) \in {"tuple", "list", "ndarray"}

\* GeometryType.get_cubit_string, of the member with value k.
get_cubit_string(k) ==
    CASE k = 1 -> PyStr("vertex")
      [] k = 2 -> PyStr("curve")
      [] k = 3 -> PyStr("surface")
      [] k = 4 -> PyStr("volume")
      [] OTHER -> <<"raise", "ValueError">>

\* Python's truth value of v, as taken by `if`.
Truthy(v) ==
    CASE Tag(v) = "none" -> FALSE
      [] Tag(v) = "bool" -> Val(v)
      [] Tag(v) \in {"int", "float", "np_float64", "np_int64"} -> Val(v) # 0
      [] Tag(v) = "str" -> Val(v) # ""
      [] Tag(v) \in {"list", "tuple"} -> Val(v) # <<>>
      [] Tag(v) = "dict" -> Val(v) # {}
      [] OTHER -> TRUE

\* str.startswith
StartsWith(s, prefix) ==
    /\ Len(s) >= Len(prefix)
    /\ SubSeq(s, 1, Len(prefix)) = prefix

Digits == <<"0", "1", "2", "3", "4", "5", "6", "7", "8", "9">>

IsDigit(c) == \E i \in 1..10 : Digits[i] = c

DigitVal(c) == (CHOOSE i \in 1..10 : Digits[i] = c) - 1

RECURSIVE DecimalValue(_)
DecimalValue(s) ==
    IF s = "" THEN 0
    ELSE 10 * DecimalValue(SubSeq(s, 1, Len(s) - 1)) + DigitVal(SubSeq(s, Len(s), Len(s)))

AllDigits(s) == \A i \in 1..Len(s) : IsDigit(SubSeq(s, i, i))

\* int(s) for a string: the value of an optional sign and decimal digits, or
\* ValueError for a string that is no such literal (the empty string,
\* letters). White space around the literal and underscores in it are left out.
PyIntOfStr(s) ==
    LET signed == s # "" /\ SubSeq(s, 1, 1) \in {"-", "+"}
        digits == IF signed THEN SubSeq(s, 2, Len(s)) ELSE s
    IN IF digits # "" /\ AllDigits(digits)
       THEN PyInt(IF signed /\ SubSeq(s, 1, 1) = "-" THEN 0 - DecimalValue(digits)
                  ELSE DecimalValue(digits))
       ELSE <<"raise", "ValueError">>

\* ---------------------------------------------------- cubit_wrapper_utility

IdPrefix == "cp2t3id_"

cubit_item_to_id(cubit_data_list) ==
    IF Tag(cubit_data_list) # "list" THEN PyNone
    ELSE IF Len(Val(cubit_data_list)) = 0 THEN PyNone
    ELSE IF Tag(Val(cubit_data_list)[1]) # "str" THEN PyNone
    ELSE IF StartsWith(Val(Val(cubit_data_list)[1]), IdPrefix)
         THEN PyIntOfStr(SubSeq(Val(Val(cubit_data_list)[1]), Len(IdPrefix) + 1,
                                Len(Val(Val(cubit_data_list)[1]))))
    ELSE PyNone

\* An is_base_type that leaves out type(None).
is_base_type_without_none(obj) ==
    \/ Tag(obj) = "str"
    \/ IsInt(obj)
    \/ IsFloat(obj)

is_base_type(obj) ==
    \/ Tag(obj) = "str"
    \/ IsInt(obj)
    \/ IsFloat(obj)
    \/ Tag(obj) = "none"

\* -------------------------------------------------------------------- state

VARIABLES
    cubit_bin_path,   \* the constructor's cubit_bin_path ("" is None)
    supplied,         \* the list cubit_arguments as the caller passed it
    cubit_arguments,  \* the list cubit_arguments (extended in place)
    log_check,        \* CubitConnect.log_check
    channels,         \* len(self.gw._channelfactory.channels())
    sent,             \* the number of messages handed to channel.send
    pending,          \* the messages sent and not yet handled by python2
    replies,          \* python2's replies, not yet taken by channel.receive
    temp_log,         \* the contents of the file cupy.temp_log
    prints,           \* the kinds of message at which python2 writes to its log
    printed,          \* what function printed from the log file, in order
    objects,          \* every CubitObject constructed, by index
    callables,        \* the functions get_attribute returned: <<object, name>>
    stack,            \* the calls in progress; __del__ frames nest on top
    result,           \* how the last finished call of the caller ended
    del_raised,       \* the number of __del__ calls that raised
    peer,             \* a second CubitConnect of the same python3 process
    nodesets          \* the ids of the node sets of the cubit session

vars == <<cubit_bin_path, supplied, cubit_arguments, log_check, channels, sent, pending,
          replies, temp_log, prints, printed, objects, callables, stack,
          result, del_raised, peer, nodesets>>

conn == <<cubit_bin_path, supplied, cubit_arguments, log_check, prints, peer, nodesets>>

\* cupy.temp_log, the path of the log file.
TempLogPath == "/tmp/cubitpy.log"

\* The launch arguments a caller passes.
ArgLists ==
    { <<"-nojournal", "-log=my.log">>,
      <<"-log", "my.log">> }

BinPaths == {"", "/opt/cubit/bin"}

\* The remote names a caller asks for.
RemoteNames == {"mesh"}

GeomNames == <<"cubitpy_vertex", "cubitpy_curve", "cubitpy_surface", "cubitpy_volume">>

IdToken(i) == IdPrefix \o Digits[i + 1]

\* object_to_id: the list python2 sends for the object with id i.
Handle(i) == PyList(<<PyStr(IdToken(i)), PyStr("<obj>")>>)

\* The kinds of message at which cubit writes to its log: at none, at its
\* start and in its methods, or also when an attribute of a cubit object is
\* looked up. ("delete" only drops the object from the table of python2.)
PrintProfiles ==
    { {},
      {"init", "method"},
      {"init", "method", "iscallable", "isinstance", "get_self_dir"} }

NoFrame == [op |-> "", pc |-> "", obj |-> 0, name |-> "", args |-> PyTuple(<<>>),
            out |-> PyNone, ret |-> PyNone, call |-> 0, access |-> FALSE]

Frame(op, pc, obj, name) ==
    [NoFrame EXCEPT !.op = op, !.pc = pc, !.obj = obj, !.name = name]

Top == stack[Len(stack)]
Pop == SubSeq(stack, 1, Len(stack) - 1)
SetTop(f) == [stack EXCEPT ![Len(stack)] = f]
At(op, pc) == stack # <<>> /\ Top.op = op /\ Top.pc = pc

NoResult == [kind |-> "none", val |-> PyNone]

\* No second CubitConnect has been constructed.
NoPeer == [state |-> "none", log_check |-> FALSE, path |-> "", n |-> 0, printed |-> <<>>,
           arguments |-> <<>>, shared |-> FALSE]

Error(name, value) == <<"error", name, value>>

\* The call of frame f, above the frames base, ends: a __del__ frame returns
\* into the call it interrupted and what it raises is reported and dropped by
\* the interpreter; every other frame ends towards the caller of the library.
Leave(base, f, kind, val) ==
    /\ stack' = base
    /\ result' = IF f.op = "__del__" THEN result
                 ELSE [kind |-> kind, val |-> val]
    /\ del_raised' = IF f.op = "__del__" /\ kind = "raise" THEN del_raised + 1
                     ELSE del_raised

\* ---------------------------------------------------------- send_and_return

\* self.channel.send(argument_list), by frame f above the frames base; f goes
\* on at pc next. Sending on a closed channel raises.
ChannelSend(base, f, m, next) ==
    IF channels = 0
    THEN /\ Leave(base, f, "raise", Error("IOError", PyNone))
         /\ UNCHANGED <<sent, pending>>
    ELSE /\ sent < MaxMsgs
         /\ sent' = sent + 1
         /\ pending' = Append(pending, [msg |-> m, n |-> sent + 1, op |-> f.op,
                                        obj |-> f.obj])
         /\ stack' = Append(base, [f EXCEPT !.pc = next])
         /\ UNCHANGED <<result, del_raised>>

\* A receive that catches the error of the closed channel and returns None.
ReceiveFailsReturnsNone ==
    /\ channels = 0
    /\ Leave(Pop, Top, "value", PyNone)
    /\ UNCHANGED <<replies, callables, objects>>

\* return self.channel.receive(): blocks until a reply is there; raises once
\* the channel is closed.
ReceiveFails ==
    /\ channels = 0
    /\ Leave(Pop, Top, "raise", Error("EOFError", PyNone))
    /\ UNCHANGED <<replies, callables, objects>>

\* A send_and_return without the check of the channels.
send_and_return_never_skips(check_number_of_channels) == FALSE

\* if check_number_of_channels: if len(...channels()) == 0: return None
send_and_return_skips(check_number_of_channels) ==
    check_number_of_channels /\ channels = 0

\* ------------------------------------------------------------ serialization

RECURSIVE Mentions(_, _)
Mentions(v, p) ==
    IF IsSequence(v)
    THEN \E i \in 1..Len(Val(v)) : Mentions(Val(v)[i], p)
    ELSE v = PyProxy(p)

\* A serialize_item that does not descend into the items of a sequence.
serialize_item_shallow(item) ==
    IF IsSequence(item) THEN PyList(Val(item))
    ELSE IF Tag(item) = "proxy" THEN objects[Val(item)].cubit_id
    ELSE IF IsFloat(item) THEN PyFloat(Val(item))
    ELSE IF Tag(item) = "bool" THEN PyInt(IF Val(item) THEN 1 ELSE 0)
    ELSE IF Tag(item) = "int" THEN PyInt(Val(item))
    ELSE IF Tag(item) = "geometry" THEN get_cubit_string(Val(item))
    ELSE item

\* A serialize_item that takes every number for a float.
RECURSIVE serialize_item_floats(_)
serialize_item_floats(item) ==
    IF IsSequence(item)
    THEN PyList([i \in 1..Len(Val(item)) |-> serialize_item_floats(Val(item)[i])])
    ELSE IF Tag(item) = "proxy" THEN objects[Val(item)].cubit_id
    ELSE IF IsFloat(item) \/ Tag(item) = "int" THEN PyFloat(Val(item))
    ELSE IF Tag(item) = "bool" THEN PyFloat(IF Val(item) THEN 1 ELSE 0)
    ELSE IF Tag(item) = "geometry" THEN get_cubit_string(Val(item))
    ELSE item

\* A serialize_item without the branch of cupy.geometry.
RECURSIVE serialize_item_without_geometry(_)
serialize_item_without_geometry(item) ==
    IF IsSequence(item)
    THEN PyList([i \in 1..Len(Val(item)) |->
                   serialize_item_without_geometry(Val(item)[i])])
    ELSE IF Tag(item) = "proxy" THEN objects[Val(item)].cubit_id
    ELSE IF IsFloat(item) THEN PyFloat(Val(item))
    ELSE IF Tag(item) = "bool" THEN PyInt(IF Val(item) THEN 1 ELSE 0)
    ELSE IF Tag(item) = "int" THEN PyInt(Val(item))
    ELSE item

RECURSIVE serialize_item(_)
serialize_item(item) ==
    IF IsSequence(item)
    THEN PyList([i \in 1..Len(Val(item)) |-> serialize_item(Val(item)[i])])
    ELSE IF Tag(item) = "proxy" THEN objects[Val(item)].cubit_id
    ELSE IF Tag(item) = "peer_proxy" THEN Val(item)
    ELSE IF IsFloat(item) THEN PyFloat(Val(item))
    ELSE IF Tag(item) = "bool" THEN PyInt(IF Val(item) THEN 1 ELSE 0)
    ELSE IF Tag(item) = "int" THEN PyInt(Val(item))
    ELSE IF Tag(item) = "geometry" THEN get_cubit_string(Val(item))
    ELSE item

IdRaises(v) == cubit_item_to_id(v)[1] = "raise"
IsId(v) == cubit_item_to_id(v) # PyNone

NewObject(id, main, held) ==
    [cubit_id |-> id, main |-> main, held |-> held, released |-> FALSE,
     deletes |-> 0]

\* The loop over a list reply: ids are the items CubitObject was constructed
\* over so far, out the list built so far; n objects existed before the call.
RECURSIVE DecodeItems(_, _, _, _)
DecodeItems(items, n, ids, out) ==
    IF items = <<>> THEN [ids |-> ids, kind |-> "value", val |-> PyList(out)]
    ELSE IF IdRaises(Head(items))
    THEN [ids |-> ids, kind |-> "raise", val |-> Error("ValueError", Head(items))]
    ELSE IF IsId(Head(items))
    THEN DecodeItems(Tail(items), n, Append(ids, Head(items)),
                     Append(out, PyProxy(n + Len(ids) + 1)))
    ELSE IF is_base_type(Head(items))
    THEN DecodeItems(Tail(items), n, ids, Append(out, Head(items)))
    ELSE [ids |-> ids, kind |-> "raise", val |-> Error("TypeError", Head(items))]

\* What function makes of the reply cubit_return.
Decode(cubit_return, n) ==
    IF IdRaises(cubit_return)
    THEN [ids |-> <<>>, kind |-> "raise", val |-> Error("ValueError", cubit_return)]
    ELSE IF IsId(cubit_return)
    THEN [ids |-> <<cubit_return>>, kind |-> "value", val |-> PyProxy(n + 1)]
    ELSE IF Tag(cubit_return) = "list"
    THEN DecodeItems(Val(cubit_return), n, <<>>, <<>>)
    ELSE IF is_base_type(cubit_return)
    THEN [ids |-> <<>>, kind |-> "value", val |-> cubit_return]
    ELSE [ids |-> <<>>, kind |-> "raise", val |-> Error("TypeError", cubit_return)]

\* ------------------------------------------------------ CubitConnect.__init__

LogPrefix == "-log="

\* A scan that looks at the first argument only.
log_given_first(arguments) ==
    arguments # <<>> /\ StartsWith(arguments[1], LogPrefix)

\* for arg in cubit_arguments: if arg.startswith("-log="): log_given = True
log_given(arguments) ==
    \E i \in 1..Len(arguments) : StartsWith(arguments[i], LogPrefix)

\* cubit_arguments.extend(["-log", cupy.temp_log])
ExtendedArguments(arguments) == arguments \o <<"-log", TempLogPath>>

\* The dictionary parameters: "tty" is set with the log check.
Parameters(check) ==
    PyDict({"__file__", "cubit_bin_path"} \cup (IF check THEN {"tty"} ELSE {}))

InitMessage(arguments) ==
    PyList(<<PyStr("init"), PyList([i \in 1..Len(arguments) |-> PyStr(arguments[i])])>>)

\* A constructor that makes the gateway before it looks at cubit_bin_path.
ConstructGatewayFirst ==
    /\ At("__init__", "start")
    /\ channels' = 1
    /\ IF cubit_bin_path = ""
       THEN /\ Leave(Pop, Top, "raise", Error("ValueError", PyNone))
            /\ UNCHANGED <<cubit_arguments, log_check>>
       ELSE /\ log_check' = ~log_given(cubit_arguments)
            /\ cubit_arguments' = IF log_given(cubit_arguments) THEN cubit_arguments
                                  ELSE ExtendedArguments(cubit_arguments)
            /\ stack' = SetTop([Top EXCEPT !.pc = "send_parameters"])
            /\ UNCHANGED <<result, del_raised>>
    /\ UNCHANGED <<cubit_bin_path, supplied, prints, peer, nodesets, sent, pending, replies,
                   temp_log, printed, objects, callables>>

\* Up to the first send: the check of cubit_bin_path, the gateway and its
\* channel, the scan of the arguments for a log file.
Construct ==
    /\ At("__init__", "start")
    /\ IF cubit_bin_path = ""
       THEN /\ Leave(Pop, Top, "raise", Error("ValueError", PyNone))
            /\ UNCHANGED <<cubit_arguments, log_check, channels>>
       ELSE /\ channels' = 1
            /\ log_check' = ~log_given(cubit_arguments)
            /\ cubit_arguments' = IF log_given(cubit_arguments) THEN cubit_arguments
                                  ELSE ExtendedArguments(cubit_arguments)
            /\ stack' = SetTop([Top EXCEPT !.pc = "send_parameters"])
            /\ UNCHANGED <<result, del_raised>>
    /\ UNCHANGED <<cubit_bin_path, supplied, prints, peer, nodesets, sent, pending, replies,
                   temp_log, printed, objects, callables>>

\* A constructor that sends the init message first.
ConstructSendsInitFirst ==
    /\ At("__init__", "send_parameters")
    /\ ChannelSend(Pop, Top, InitMessage(cubit_arguments), "receive_parameters")
    /\ UNCHANGED <<conn, channels, replies, temp_log, printed, objects, callables>>

\* self.send_and_return(parameters): the send
ConstructSendParameters ==
    /\ At("__init__", "send_parameters")
    /\ ChannelSend(Pop, Top, Parameters(log_check), "receive_parameters")
    /\ UNCHANGED <<conn, channels, replies, temp_log, printed, objects, callables>>

\* self.send_and_return(parameters): the receive
ConstructReceiveParameters ==
    /\ At("__init__", "receive_parameters")
    /\ channels > 0 /\ replies # <<>>
    /\ replies' = Tail(replies)
    /\ stack' = SetTop([Top EXCEPT !.pc = "send_init"])
    /\ UNCHANGED <<conn, channels, sent, pending, temp_log, printed, objects,
                   callables, result, del_raised>>

\* self.send_and_return(["init", cubit_arguments]): the send
ConstructSendInit ==
    /\ At("__init__", "send_init")
    /\ ChannelSend(Pop, Top, InitMessage(cubit_arguments), "receive_init")
    /\ UNCHANGED <<conn, channels, replies, temp_log, printed, objects, callables>>

\* A CubitObject.__init__ without its check.
init_accepts_all(cubit_data_list) == FALSE

\* CubitObject.__init__: if cubit_item_to_id(cubit_data_list) is None:
\*     raise TypeError("Wrong type ...")
init_raises(cubit_data_list) == cubit_item_to_id(cubit_data_list) = PyNone

\* cubit_id = self.send_and_return(...); self.cubit = CubitObjectMain(self, cubit_id)
\* CubitObject.__init__ raises TypeError for what is no cubit id.
ConstructReceiveInit ==
    /\ At("__init__", "receive_init")
    /\ channels > 0 /\ replies # <<>>
    /\ replies' = Tail(replies)
    /\ IF IdRaises(Head(replies))
       THEN /\ Leave(Pop, Top, "raise", Error("ValueError", Head(replies)))
            /\ UNCHANGED objects
       ELSE IF init_raises(Head(replies))
       THEN /\ Leave(Pop, Top, "raise", Error("TypeError", Head(replies)))
            /\ UNCHANGED objects
       ELSE /\ objects' = Append(objects, NewObject(Head(replies), TRUE, TRUE))
            /\ Leave(Pop, Top, "value", PyNone)
    /\ UNCHANGED <<conn, channels, sent, pending, temp_log, printed, callables>>

\* --------------------------------------------------------------- the caller

\* The caller holds object p and has not dropped it.
Usable(p) ==
    /\ p \in 1..Len(objects)
    /\ objects[p].held
    /\ ~objects[p].released

\* A call in progress that holds on to its self only, not to its arguments.
ReferencedAsSelf(p) ==
    \E i \in 1..Len(stack) : stack[i].obj = p

\* A call in progress refers to object p: as its self or in its arguments.
Referenced(p) ==
    \E i \in 1..Len(stack) : stack[i].obj = p \/ Mentions(stack[i].args, p)

\* The argument tuples a caller passes to a method.
ArgChoices ==
    {PyTuple(<<>>)} \cup
    {PyTuple(<<PyProxy(q)>>) : q \in {q \in 1..Len(objects) : Usable(q) /\ ~objects[q].main}}

\* ---------------------------------------------- CubitConnect.get_attribute

IsCallableMessage(p, name) ==
    PyList(<<PyStr("iscallable"), objects[p].cubit_id, PyStr(name)>>)

\* CubitObject.__getattribute__ of a name that is no attribute in python3,
\* then get_attribute up to the send of "iscallable".
GetAttribute(p, name) ==
    /\ stack = <<>>
    /\ Usable(p)
    /\ ChannelSend(<<>>, Frame("get_attribute", "send", p, name),
                   IsCallableMessage(p, name), "receive")
    /\ UNCHANGED <<conn, channels, replies, temp_log, printed, objects, callables>>

\* A get_attribute that returns function whatever the reply is.
ReturnsFunctionAlways(reply) == TRUE

\* if self.send_and_return(["iscallable", ...]): return function
ReturnsFunction(reply) == Truthy(reply)

\* The reply to "iscallable": return function, or else return function()
GetAttributeReceive ==
    /\ At("get_attribute", "receive")
    /\ channels > 0 /\ replies # <<>>
    /\ replies' = Tail(replies)
    /\ IF ReturnsFunction(Head(replies))
       THEN /\ callables' = callables \cup {<<Top.obj, Top.name>>}
            /\ Leave(Pop, Top, "callable", PyNone)
       ELSE /\ stack' = SetTop([Top EXCEPT !.op = "function", !.pc = "truncate",
                                           !.access = TRUE])
            /\ UNCHANGED <<callables, result, del_raised>>
    /\ UNCHANGED <<conn, channels, sent, pending, temp_log, printed, objects>>

\* The caller calls a function that get_attribute returned.
Invoke(p, name, args) ==
    /\ stack = <<>>
    /\ <<p, name>> \in callables
    /\ stack' = <<[Frame("function", "truncate", p, name) EXCEPT !.args = args]>>
    /\ UNCHANGED <<conn, channels, sent, pending, replies, temp_log, printed,
                   objects, callables, result, del_raised>>

\* A function that leaves the log file as it is.
NotTruncated(check, log) == log

\* if self.log_check: if os.stat(cupy.temp_log).st_size != 0: open(.., "w")
Truncated(check, log) == IF check /\ log # <<>> THEN <<>> ELSE log

\* function, up to the send: the log file is emptied, the arguments serialized.
FunctionTruncate ==
    /\ At("function", "truncate")
    /\ temp_log' = Truncated(log_check, temp_log)
    /\ stack' = SetTop([Top EXCEPT !.out = serialize_item(Top.args), !.pc = "send"])
    /\ UNCHANGED <<conn, channels, sent, pending, replies, printed, objects,
                   callables, result, del_raised>>

\* A message of a method call without the list around its arguments.
MethodMessageFlat(f) ==
    PyList(<<objects[f.obj].cubit_id, PyStr(f.name)>> \o Val(f.out))

MethodMessage(f) ==
    PyList(<<objects[f.obj].cubit_id, PyStr(f.name), f.out>>)

\* cubit_return = self.send_and_return([cubit_object.cubit_id, name, arguments])
FunctionSend ==
    /\ At("function", "send")
    /\ ChannelSend(Pop, [Top EXCEPT !.call = sent + 1], MethodMessage(Top), "receive")
    /\ UNCHANGED <<conn, channels, replies, temp_log, printed, objects, callables>>

\* A function that decodes the reply without printing the log.
FunctionReceiveDecodes ==
    /\ At("function", "receive")
    /\ channels > 0 /\ replies # <<>>
    /\ replies' = Tail(replies)
    /\ stack' = SetTop([Top EXCEPT !.ret = Head(replies), !.pc = "decode"])
    /\ UNCHANGED <<conn, channels, sent, pending, temp_log, printed, objects,
                   callables, result, del_raised>>

FunctionReceive ==
    /\ At("function", "receive")
    /\ channels > 0 /\ replies # <<>>
    /\ replies' = Tail(replies)
    /\ stack' = SetTop([Top EXCEPT !.ret = Head(replies), !.pc = "forward"])
    /\ UNCHANGED <<conn, channels, sent, pending, temp_log, printed, objects,
                   callables, result, del_raised>>

\* if self.log_check: print(log_file.read(), end="")
Forwarded(check, f, log) ==
    IF check THEN printed \o log ELSE printed

FunctionForward ==
    /\ At("function", "forward")
    /\ printed' = Forwarded(log_check, Top, temp_log)
    /\ stack' = SetTop([Top EXCEPT !.pc = "decode"])
    /\ UNCHANGED <<conn, channels, sent, pending, replies, temp_log, objects,
                   callables, result, del_raised>>

\* A function that keeps the objects it has made when it raises.
kept_always(kind) == TRUE

\* The objects function has made are in its return value, or in the local
\* return_list, which is gone when function raises.
kept_by_caller(kind) == kind = "value"

\* The reply becomes a CubitObject, a list or a base type, or TypeError.
FunctionDecode ==
    /\ At("function", "decode")
    /\ LET d == Decode(Top.ret, Len(objects))
       IN /\ objects' = objects \o [i \in 1..Len(d.ids) |->
                                      NewObject(d.ids[i], FALSE, kept_by_caller(d.kind))]
          /\ Leave(Pop, Top, d.kind, d.val)
    /\ UNCHANGED <<conn, channels, sent, pending, replies, temp_log, printed,
                   callables>>

\* ------------------------------------- CubitObject.isinstance, get_self_dir

IsInstanceMessage(p, geom_type) ==
    PyList(<<PyStr("isinstance"), objects[p].cubit_id, PyStr(geom_type)>>)

GetSelfDirMessage(p) == PyList(<<PyStr("get_self_dir"), objects[p].cubit_id>>)

IsInstance(p, geom_type) ==
    /\ stack = <<>>
    /\ Usable(p)
    /\ ChannelSend(<<>>, Frame("isinstance", "send", p, geom_type),
                   IsInstanceMessage(p, geom_type), "receive")
    /\ UNCHANGED <<conn, channels, replies, temp_log, printed, objects, callables>>

GetSelfDir(p) ==
    /\ stack = <<>>
    /\ Usable(p)
    /\ ChannelSend(<<>>, Frame("get_self_dir", "send", p, ""),
                   GetSelfDirMessage(p), "receive")
    /\ UNCHANGED <<conn, channels, replies, temp_log, printed, objects, callables>>

\* A raw call that prints the log as function does.
RawReceiveForwards ==
    /\ stack # <<>>
    /\ Top.op \in {"isinstance", "get_self_dir"} /\ Top.pc = "receive"
    /\ channels > 0 /\ replies # <<>>
    /\ replies' = Tail(replies)
    /\ printed' = Forwarded(log_check, Top, temp_log)
    /\ Leave(Pop, Top, "value", Head(replies))
    /\ UNCHANGED <<conn, channels, sent, pending, temp_log, objects, callables>>

\* return self.cubit_connect.send_and_return([...]): the receive
RawReceive ==
    /\ stack # <<>>
    /\ Top.op \in {"isinstance", "get_self_dir"} /\ Top.pc = "receive"
    /\ channels > 0 /\ replies # <<>>
    /\ replies' = Tail(replies)
    /\ Leave(Pop, Top, "value", Head(replies))
    /\ UNCHANGED <<conn, channels, sent, pending, temp_log, printed, objects,
                   callables>>

\* -------------------------------------------------------------- __del__

DeleteMessage(p) == PyList(<<PyStr("delete"), objects[p].cubit_id>>)

\* A CubitObjectMain without its own __del__.
DelSendsForMain(main) == ~send_and_return_skips(TRUE)

\* What __del__ of an object does before any send: CubitObjectMain.__del__
\* is pass; CubitObject.__del__ is send_and_return(["delete", id],
\* check_number_of_channels=True), which returns None without a channel.
DelSends(main) == ~main /\ ~send_and_return_skips(TRUE)

\* The interpreter finalizes object p, which nothing refers to any more: when
\* its last reference is dropped, or when the garbage collector finds it,
\* which is at any point of any call in progress.
Release(p) ==
    /\ p \in 1..Len(objects)
    /\ ~objects[p].released
    /\ ~Referenced(p)
    /\ objects' = [objects EXCEPT ![p].released = TRUE, ![p].held = FALSE]
    /\ callables' = {c \in callables : c[1] # p}
    /\ stack' = IF DelSends(objects[p].main)
                THEN Append(stack, Frame("__del__", "send", p, ""))
                ELSE stack
    /\ UNCHANGED <<conn, channels, sent, pending, replies, temp_log, printed,
                   result, del_raised>>

\* A __del__ that sends its message a second time.
DelSendTwice ==
    /\ At("__del__", "send")
    /\ ChannelSend(Pop, Top, DeleteMessage(Top.obj),
                   IF objects[Top.obj].deletes = 0 THEN "send" ELSE "receive")
    /\ objects' = IF channels > 0 THEN [objects EXCEPT ![Top.obj].deletes = @ + 1]
                  ELSE objects
    /\ UNCHANGED <<conn, channels, replies, temp_log, printed, callables>>

\* self.channel.send(["delete", self.cubit_id]); objects counts the delete
\* messages of each object.
DelSend ==
    /\ At("__del__", "send")
    /\ ChannelSend(Pop, Top, DeleteMessage(Top.obj), "receive")
    /\ objects' = IF channels > 0 THEN [objects EXCEPT ![Top.obj].deletes = @ + 1]
                  ELSE objects
    /\ UNCHANGED <<conn, channels, replies, temp_log, printed, callables>>

\* A __del__ whose receive gives up waiting and returns without a reply.
DelReceiveTimesOut ==
    /\ At("__del__", "receive")
    /\ channels > 0
    /\ replies' = IF replies # <<>> THEN Tail(replies) ELSE replies
    /\ Leave(Pop, Top, "value", PyNone)
    /\ UNCHANGED <<conn, channels, sent, pending, temp_log, printed, objects,
                   callables>>

\* return self.channel.receive(): the value is dropped by __del__
DelReceive ==
    /\ At("__del__", "receive")
    /\ channels > 0 /\ replies # <<>>
    /\ replies' = Tail(replies)
    /\ Leave(Pop, Top, "value", PyNone)
    /\ UNCHANGED <<conn, channels, sent, pending, temp_log, printed, objects,
                   callables>>

\* channel.receive() of the call in progress raises: the channel is closed.
ReceiveRaises ==
    /\ stack # <<>>
    /\ Top.pc \in {"receive", "receive_parameters", "receive_init"}
    /\ ReceiveFails
    /\ UNCHANGED <<conn, channels, sent, pending, temp_log, printed>>

\* ------------------------------------------------- python2 and the gateway

\* What kind of message python2 takes m for.
Kind(m) ==
    IF Tag(m) = "dict" THEN "parameters"
    ELSE IF Tag(m) # "list" \/ Val(m) = <<>> THEN "unknown"
    ELSE IF Val(m)[1] \in {PyStr("init"), PyStr("iscallable"), PyStr("isinstance"),
                           PyStr("get_self_dir"), PyStr("delete")}
    THEN Val(Val(m)[1])
    ELSE IF IsId(Val(m)[1]) THEN "method"
    ELSE "unknown"

RootId == 1

\* What a method of cubit returns.
MethodReplies ==
    { Handle(1), Handle(2), PyInt(5),
      PyList(<<Handle(2), PyInt(5)>>),
      PyList(<<Handle(2), PyTuple(<<>>)>>) }

SelfDir ==
    PyList(<<PyList(<<PyStr("mesh"), PyBool(TRUE)>>), PyList(<<PyStr("id"), PyBool(FALSE)>>)>>)

\* The members of an object that is not cubit itself.
SelfDirOfItem ==
    PyList(<<PyList(<<PyStr("id"), PyBool(FALSE)>>),
             PyList(<<PyStr("volumes"), PyBool(TRUE)>>),
             PyList(<<PyStr("is_meshed"), PyBool(TRUE)>>),
             PyList(<<PyStr("dimension"), PyBool(FALSE)>>)>>)

RemoteReplies(m) ==
    CASE Kind(m) = "parameters" -> {PyNone}
      [] Kind(m) = "init" -> {Handle(RootId)}
      [] Kind(m) = "method" -> MethodReplies
      [] Kind(m) \in {"iscallable", "isinstance"} -> {PyBool(TRUE), PyBool(FALSE)}
      [] Kind(m) = "get_self_dir" ->
             {IF Val(m)[2] = Handle(RootId) THEN SelfDir ELSE SelfDirOfItem}
      [] OTHER -> {PyNone}

\* python2 writes its log to cupy.temp_log when the parameters named it
\* ("tty", set with log_check).
RemoteLogsToTempLog == log_check

\* python2 takes the oldest message, may write to its log, and replies.
RemoteStep ==
    /\ channels > 0
    /\ pending # <<>>
    /\ pending' = Tail(pending)
    /\ \E r \in RemoteReplies(Head(pending).msg) :
           replies' = Append(replies, r)
    /\ temp_log' = IF RemoteLogsToTempLog /\ Kind(Head(pending).msg) \in prints
                   THEN Append(temp_log, Head(pending).n)
                   ELSE temp_log
    /\ UNCHANGED <<conn, channels, sent, printed, objects, callables, stack,
                   result, del_raised>>

\* The python2 process ends or the gateway is closed: no channel is left.
Teardown ==
    /\ channels > 0
    /\ channels' = 0
    /\ pending' = <<>>
    /\ replies' = <<>>
    /\ UNCHANGED <<conn, sent, temp_log, printed, objects, callables, stack,
                   result, del_raised>>

\* The constructor is entered with the arguments of the caller.
Init ==
    /\ cubit_bin_path \in BinPaths
    /\ supplied \in ArgLists
    /\ cubit_arguments = supplied
    /\ log_check = FALSE
    /\ channels = 0
    /\ sent = 0
    /\ pending = <<>>
    /\ replies = <<>>
    /\ temp_log = <<>>
    /\ prints \in IF cubit_bin_path # "" /\ ~log_given(cubit_arguments)
                   THEN PrintProfiles ELSE {{}}
    /\ printed = <<>>
    /\ objects = <<>>
    /\ callables = {}
    /\ stack = <<[NoFrame EXCEPT !.op = "__init__", !.pc = "start"]>>
    /\ result = NoResult
    /\ del_raised = 0
    /\ peer = NoPeer
    /\ nodesets = {}

Next ==
    \/ Construct
    \/ ConstructSendParameters
    \/ ConstructReceiveParameters
    \/ ConstructSendInit
    \/ ConstructReceiveInit
    \/ \E p \in 1..Len(objects), name \in RemoteNames : GetAttribute(p, name)
    \/ GetAttributeReceive
    \/ \E c \in callables, args \in ArgChoices : Invoke(c[1], c[2], args)
    \/ FunctionTruncate
    \/ FunctionSend
    \/ FunctionReceive
    \/ FunctionForward
    \/ FunctionDecode
    \/ \E p \in 1..Len(objects), i \in 1..Len(GeomNames) : IsInstance(p, GeomNames[i])
    \/ \E p \in 1..Len(objects) : GetSelfDir(p)
    \/ RawReceive
    \/ \E p \in 1..Len(objects) : Release(p)
    \/ DelSend
    \/ DelReceive
    \/ ReceiveRaises
    \/ RemoteStep
    \/ Teardown

Spec == Init /\ [][Next]_vars

\* The steps by which the call in progress goes on: python3 runs one thread
\* and goes on with the call on top of the stack whenever that call can.
Continue ==
    \/ Construct
    \/ ConstructSendParameters
    \/ ConstructReceiveParameters
    \/ ConstructSendInit
    \/ ConstructReceiveInit
    \/ GetAttributeReceive
    \/ FunctionTruncate
    \/ FunctionSend
    \/ FunctionReceive
    \/ FunctionForward
    \/ FunctionDecode
    \/ RawReceive
    \/ DelSend
    \/ DelReceive
    \/ ReceiveRaises

\* The constructor is entered with a path to cubit and a log file of the
\* caller.
LiveInit == Init /\ cubit_bin_path # "" /\ log_given(supplied)

\* The connection with a python3 that goes on with its call and a python2
\* that replies to every message it has got.
LiveSpec == LiveInit /\ [][Next]_vars /\ WF_vars(Continue) /\ WF_vars(RemoteStep)

\* The objects that nothing has ever held: those of a reply whose decoding
\* raised.
Orphans == {p \in 1..Len(objects) : ~objects[p].held /\ ~objects[p].released}

\* The interpreter finalizes an object that nothing holds.
ReleaseOrphan == \E p \in Orphans : Release(p)

\* The connection of LiveSpec under an interpreter that finalizes what
\* nothing refers to (reference counting, as in CPython).
OrphanSpec ==
    LiveInit /\ [][Next]_vars /\ WF_vars(Continue) /\ WF_vars(RemoteStep)
             /\ WF_vars(ReleaseOrphan)

\* ------------------------------------------------- the functions on values

SeqsUpTo(S, n) == UNION {[1..k -> S] : k \in 0..n}

\* First items of a list: well-formed and malformed id strings, other strings.
IdStrings ==
    {"cp2t3id_42", "cp2t3id_", "cp2t3id_4x", "cp2t3id_-7", "cp2t3id", "42", ""}

\* What is no list, tuple or array.
Scalars == {PyNone, PyBool(TRUE), PyInt(5), PyFloat(2), PyStr("<Vertex>")}

\* The values cubit_item_to_id is called with.
ClassifyInputs ==
    Scalars \cup {PyStr("cp2t3id_42"), PyDict({}), PyProxy(2)} \cup
    {PyList(xs) : xs \in SeqsUpTo({PyStr(t) : t \in IdStrings} \cup
                                  {PyInt(5), PyNone, PyStr("<Vertex>")}, MaxLen)} \cup
    {PyTuple(xs) : xs \in SeqsUpTo({PyStr("cp2t3id_42"), PyStr("<Vertex>"), PyInt(5)},
                                   MaxLen)}

\* The values is_base_type is called with: what a reply can hold.
BaseTypeInputs ==
    ClassifyInputs \cup {PyBool(FALSE), PyInt(0), PyStr(""), PyDict({"a"}), PyGeometry(1)}

\* The items of a list that python2 replies.
ReplyItems ==
    { Handle(2), Handle(3), PyInt(5), PyStr("<Vertex>"), PyNone,
      PyList(<<PyStr("cp2t3id_4x"), PyStr("<Vertex>")>>),
      PyList(<<PyInt(5)>>), PyTuple(<<>>), PyDict({}) }

\* The replies to a method call.
ReplyValues ==
    (ClassifyInputs \ {PyProxy(2)}) \cup
    {PyList(xs) : xs \in SeqsUpTo(ReplyItems, MaxLen)}

\* Numbers, objects and other items among the arguments of a call.
ArgAtoms ==
    { PyInt(5), PyInt(0), PyInt(0 - 3), PyBool(TRUE), PyFloat(2), PyFloat(0),
      NpFloat64(2), NpInt64(3), PyStr("s"), PyStr(""), PyStr("cp2t3id_42"),
      PyProxy(1), PyProxy(2), PyGeometry(1), PyGeometry(2), PyGeometry(3),
      PyGeometry(4), PyFiniteElement(1), PyNone, PyDict({"a"}) }

\* Lists, tuples and arrays among the arguments; an array holds numbers of
\* one numpy type, or arrays.
ArgNested ==
    LET items == {PyInt(5), PyFloat(2), PyProxy(2), PyList(<<PyProxy(2), PyInt(5)>>),
                  PyTuple(<<NpInt64(3)>>), PyGeometry(3),
                  PyList(<<PyGeometry(4), PyNone>>)}
        numbers == {[i \in 1..k |-> x] : k \in 0..MaxLen, x \in {NpFloat64(2), NpInt64(3)}}
    IN {PyList(xs) : xs \in SeqsUpTo(items, MaxLen)} \cup
       {PyTuple(xs) : xs \in SeqsUpTo(items, MaxLen)} \cup
       {NdArray(xs) : xs \in numbers} \cup
       {NdArray(<<NdArray(xs)>>) : xs \in numbers \ {<<>>}}

\* The tuples args of function(*args).
ArgValues ==
    {PyTuple(<<>>)} \cup {PyTuple(<<x>>) : x \in ArgAtoms \cup ArgNested} \cup
    {PyTuple(<<x, PyProxy(2)>>) : x \in ArgAtoms}

\* The classes of the objects: CubitObjectMain(CubitObject).
ProxyClasses == {"CubitObject", "CubitObjectMain"}

\* The calls the functions are observed in: cubit_item_to_id and is_base_type
\* of a value, function with its arguments, and function with its reply.
ValueFrames ==
    {[NoFrame EXCEPT !.op = "cubit_item_to_id", !.pc = "call", !.args = v] :
        v \in ClassifyInputs} \cup
    {[NoFrame EXCEPT !.op = "is_base_type", !.pc = "call", !.args = v] :
        v \in BaseTypeInputs} \cup
    {[NoFrame EXCEPT !.op = "function", !.pc = "truncate", !.obj = 1, !.name = "echo",
                     !.args = v] : v \in ArgValues} \cup
    {[NoFrame EXCEPT !.op = "function", !.pc = "decode", !.obj = 1, !.name = "mesh",
                     !.ret = v, !.call = 1] : v \in ReplyValues} \cup
    {[NoFrame EXCEPT !.op = "CubitObject.__init__", !.pc = "call", !.name = c,
                     !.args = v] : v \in ClassifyInputs, c \in ProxyClasses}

\* A connection with its root and one more object, in one of the calls.
ValueInit ==
    /\ cubit_bin_path = "/opt/cubit/bin"
    /\ supplied = <<"-nojournal", "-log=my.log">>
    /\ cubit_arguments = supplied
    /\ log_check = FALSE
    /\ channels = 1
    /\ sent = 2
    /\ pending = <<>>
    /\ replies = <<>>
    /\ temp_log = <<>>
    /\ prints = {}
    /\ printed = <<>>
    /\ objects = <<NewObject(Handle(RootId), TRUE, TRUE), NewObject(Handle(2), FALSE, TRUE)>>
    /\ callables = {}
    /\ stack \in {<<f>> : f \in ValueFrames}
    /\ result = NoResult
    /\ del_raised = 0
    /\ peer = NoPeer
    /\ nodesets = {}

\* cubit_item_to_id(v), called on its own.
Classify ==
    /\ At("cubit_item_to_id", "call")
    /\ IF IdRaises(Top.args)
       THEN Leave(Pop, Top, "raise", Error("ValueError", Top.args))
       ELSE Leave(Pop, Top, "value", cubit_item_to_id(Top.args))
    /\ UNCHANGED <<conn, channels, sent, pending, replies, temp_log, printed,
                   objects, callables>>

\* is_base_type(v), called on its own.
IsBaseType ==
    /\ At("is_base_type", "call")
    /\ Leave(Pop, Top, "value", PyBool(is_base_type(Top.args)))
    /\ UNCHANGED <<conn, channels, sent, pending, replies, temp_log, printed,
                   objects, callables>>

\* What execnet carries: the builtin types.
RECURSIVE Wireable(_)
Wireable(v) ==
    IF Tag(v) \in {"list", "tuple"}
    THEN \A i \in 1..Len(Val(v)) : Wireable(Val(v)[i])
    ELSE Tag(v) \in {"none", "bool", "int", "float", "str", "dict"}

\* The method echo of python2 returns its first argument: the message goes
\* out and its reply is taken. What execnet cannot carry is not sent.
Echo ==
    /\ At("function", "send") /\ Top.name = "echo"
    /\ IF Wireable(Top.out)
       THEN /\ sent < MaxMsgs
            /\ sent' = sent + 1
            /\ stack' = SetTop([Top EXCEPT !.call = sent + 1, !.pc = "decode",
                                  !.ret = IF Val(Top.out) = <<>> THEN PyNone
                                          ELSE Val(Top.out)[1]])
            /\ UNCHANGED <<result, del_raised>>
       ELSE /\ Leave(Pop, Top, "raise", Error("DumpError", Top.out))
            /\ UNCHANGED sent
    /\ UNCHANGED <<conn, channels, pending, replies, temp_log, printed, objects,
                   callables>>

\* CubitObject(cubit_connect, v) or CubitObjectMain(cubit_connect, v): the
\* check, then the two attributes. When __init__ raises, the object exists
\* without attributes and is finalized once the exception is dealt with.
CubitObjectInit ==
    /\ At("CubitObject.__init__", "call")
    /\ IF IdRaises(Top.args) \/ init_raises(Top.args)
       THEN /\ result' = [kind |-> "raise",
                          val |-> Error(IF IdRaises(Top.args) THEN "ValueError"
                                        ELSE "TypeError", Top.args)]
            /\ stack' = SetTop(Frame("__del__", "partial", 0, Top.name))
            /\ UNCHANGED <<objects, del_raised>>
       ELSE /\ objects' = Append(objects,
                                 NewObject(Top.args, Top.name = "CubitObjectMain", TRUE))
            /\ Leave(Pop, Top, "value", PyProxy(Len(objects) + 1))
    /\ UNCHANGED <<conn, channels, sent, pending, replies, temp_log, printed,
                   callables>>

\* __del__ of an object whose __init__ has raised. CubitObjectMain: pass.
\* CubitObject: self.cubit_connect is not set, object.__getattribute__ raises
\* AttributeError, and __getattribute__ asks for self.cubit_connect again to
\* call get_attribute: the recursion ends in a RecursionError out of __del__.
PartialDel ==
    /\ At("__del__", "partial")
    /\ IF Top.name # "CubitObjectMain"
       THEN Leave(Pop, Top, "raise", Error("RecursionError", PyNone))
       ELSE Leave(Pop, Top, "value", PyNone)
    /\ UNCHANGED <<conn, channels, sent, pending, replies, temp_log, printed,
                   objects, callables>>

ValueNext ==
    \/ Classify
    \/ IsBaseType
    \/ FunctionTruncate
    \/ Echo
    \/ FunctionDecode
    \/ CubitObjectInit
    \/ PartialDel

ValueSpec == ValueInit /\ [][ValueNext]_vars

\* ------------------------------------------- the helpers of a CubitObject

\* What a helper does with a reply: it returns a value, raises, or asks
\* isinstance with the next name.
Returns(v) == [do |-> "return", val |-> v]
Raises(e) == [do |-> "raise", val |-> e]
Asks(name) == [do |-> "ask", val |-> PyStr(name)]

\* raise TypeError("The item is not a valid geometry!")
NotValidGeometry == Error("TypeError", PyStr("The item is not a valid geometry!"))

\* A get_geometry_type that asks for the surface before the curve.
get_geometry_type_surface_first(name, reply) ==
    CASE name = "cubitpy_vertex" ->
             IF Truthy(reply) THEN Returns(PyGeometry(1)) ELSE Asks("cubitpy_surface")
      [] name = "cubitpy_surface" ->
             IF Truthy(reply) THEN Returns(PyGeometry(3)) ELSE Asks("cubitpy_curve")
      [] name = "cubitpy_curve" ->
             IF Truthy(reply) THEN Returns(PyGeometry(2)) ELSE Asks("cubitpy_volume")
      [] OTHER ->
             IF Truthy(reply) THEN Returns(PyGeometry(4)) ELSE Raises(NotValidGeometry)

\* CubitObject.get_geometry_type, after the reply to isinstance(name): the
\* chain of if self.isinstance(..): return cupy.geometry...; elif ..; raise.
get_geometry_type(name, reply) ==
    CASE name = "cubitpy_vertex" ->
             IF Truthy(reply) THEN Returns(PyGeometry(1)) ELSE Asks("cubitpy_curve")
      [] name = "cubitpy_curve" ->
             IF Truthy(reply) THEN Returns(PyGeometry(2)) ELSE Asks("cubitpy_surface")
      [] name = "cubitpy_surface" ->
             IF Truthy(reply) THEN Returns(PyGeometry(3)) ELSE Asks("cubitpy_volume")
      [] OTHER ->
             IF Truthy(reply) THEN Returns(PyGeometry(4)) ELSE Raises(NotValidGeometry)

\* utils.get_geometry_type(item) of an item that is no CubitGroup, after the
\* reply to item.isinstance(name).
utils_get_geometry_type(name, reply) ==
    IF name = "cubitpy_vertex"
    THEN IF Truthy(reply) THEN Returns(PyGeometry(1)) ELSE Asks("cubitpy_curve")
    ELSE IF name = "cubitpy_curve"
    THEN IF Truthy(reply) THEN Returns(PyGeometry(2)) ELSE Asks("cubitpy_surface")
    ELSE IF name = "cubitpy_surface"
    THEN IF Truthy(reply) THEN Returns(PyGeometry(3)) ELSE Asks("cubitpy_volume")
    ELSE IF Truthy(reply) THEN Returns(PyGeometry(4)) ELSE Raises(NotValidGeometry)

LookupOps == {"get_geometry_type", "utils.get_geometry_type"}

\* The frame of a lookup that is about to ask isinstance(name).
Asking(f, name) == [f EXCEPT !.name = name, !.pc = "send"]

\* The frame of a lookup that has sent isinstance(f.name): out lists the
\* names it has asked for.
Asked(f) == [f EXCEPT !.out = PyList(Append(Val(f.out), PyStr(f.name)))]

\* The first self.isinstance("cubitpy_vertex") of a lookup of kind op.
LookupEnter(op, p) ==
    /\ stack = <<>>
    /\ Usable(p)
    /\ ChannelSend(<<>>, Asked(Asking([Frame(op, "send", p, "") EXCEPT
                                             !.out = PyList(<<>>)], GeomNames[1])),
                   IsInstanceMessage(p, GeomNames[1]), "receive")
    /\ UNCHANGED <<conn, channels, replies, temp_log, printed, objects, callables>>

\* CubitObject.get_geometry_type of object p is called.
GetGeometryType(p) == LookupEnter("get_geometry_type", p)

\* utils.get_geometry_type(item) is called with object p.
UtilsGetGeometryType(p) == LookupEnter("utils.get_geometry_type", p)

\* The isinstance of an elif: send_and_return(["isinstance", id, name]).
GeometryTypeSend ==
    /\ stack # <<>> /\ Top.op \in LookupOps /\ Top.pc = "send"
    /\ ChannelSend(Pop, Asked(Top), IsInstanceMessage(Top.obj, Top.name), "receive")
    /\ UNCHANGED <<conn, channels, replies, temp_log, printed, objects, callables>>

\* The reply to a helper is taken and the helper goes on as o says.
HelperReceive(o) ==
    /\ replies' = Tail(replies)
    /\ CASE o.do = "return" -> Leave(Pop, Top, "value", o.val)
         [] o.do = "raise" -> Leave(Pop, Top, "raise", o.val)
         [] OTHER -> /\ stack' = SetTop(Asking(Top, Val(o.val)))
                     /\ UNCHANGED <<result, del_raised>>
    /\ UNCHANGED <<conn, channels, sent, pending, temp_log, printed, objects,
                   callables>>

GeometryTypeReceive ==
    /\ At("get_geometry_type", "receive")
    /\ channels > 0 /\ replies # <<>>
    /\ HelperReceive(get_geometry_type(Top.name, Head(replies)))

UtilsGeometryTypeReceive ==
    /\ At("utils.get_geometry_type", "receive")
    /\ channels > 0 /\ replies # <<>>
    /\ HelperReceive(utils_get_geometry_type(Top.name, Head(replies)))

\* for method, callable in reply: a list or tuple of pairs can be unpacked.
IsPairs(reply) ==
    /\ Tag(reply) \in {"list", "tuple"}
    /\ \A i \in 1..Len(Val(reply)) :
           /\ Tag(Val(reply)[i]) \in {"list", "tuple"}
           /\ Len(Val(Val(reply)[i])) = 2

\* [method for method, callable in reply if <callable is as wanted>]; wanted
\* is the set of truth values that are kept.
Comprehension(reply, wanted) ==
    IF IsPairs(reply)
    THEN LET kept == SelectSeq(Val(reply), LAMBDA e : Truthy(Val(e)[2]) \in wanted)
         IN Returns(PyList([i \in 1..Len(kept) |-> Val(kept[i])[1]]))
    ELSE Raises(Error("TypeError", reply))

\* A get_methods that returns every name.
get_methods_unfiltered(reply) == Comprehension(reply, {TRUE, FALSE})

\* return [method for method, callable in self.get_self_dir() if callable]
get_methods(reply) == Comprehension(reply, {TRUE})

\* return [method for method, callable in self.get_self_dir() if not callable]
get_attributes(reply) == Comprehension(reply, {FALSE})

\* self.get_self_dir() of get_methods or get_attributes (op) of object p.
MembersEnter(op, p) ==
    /\ stack = <<>>
    /\ Usable(p)
    /\ ChannelSend(<<>>, Frame(op, "send", p, ""), GetSelfDirMessage(p), "receive")
    /\ UNCHANGED <<conn, channels, replies, temp_log, printed, objects, callables>>

GetMethods(p) == MembersEnter("get_methods", p)

GetAttributes(p) == MembersEnter("get_attributes", p)

GetMethodsReceive ==
    /\ At("get_methods", "receive")
    /\ channels > 0 /\ replies # <<>>
    /\ HelperReceive(get_methods(Head(replies)))

GetAttributesReceive ==
    /\ At("get_attributes", "receive")
    /\ channels > 0 /\ replies # <<>>
    /\ HelperReceive(get_attributes(Head(replies)))

\* A connection with cubit and one more object, and no call in progress.
HelperInit ==
    /\ cubit_bin_path = "/opt/cubit/bin"
    /\ supplied = <<"-nojournal", "-log=my.log">>
    /\ cubit_arguments = supplied
    /\ log_check = FALSE
    /\ channels = 1
    /\ sent = 2
    /\ pending = <<>>
    /\ replies = <<>>
    /\ temp_log = <<>>
    /\ prints = {}
    /\ printed = <<>>
    /\ objects = <<NewObject(Handle(RootId), TRUE, TRUE), NewObject(Handle(2), FALSE, TRUE)>>
    /\ callables = {}
    /\ stack = <<>>
    /\ result = NoResult
    /\ del_raised = 0
    /\ peer = NoPeer
    /\ nodesets = {}

HelperNext ==
    \/ \E p \in 1..Len(objects) : GetGeometryType(p)
    \/ \E p \in 1..Len(objects) : UtilsGetGeometryType(p)
    \/ GeometryTypeSend
    \/ GeometryTypeReceive
    \/ UtilsGeometryTypeReceive
    \/ \E p \in 1..Len(objects) : GetSelfDir(p)
    \/ RawReceive
    \/ \E p \in 1..Len(objects) : GetMethods(p)
    \/ \E p \in 1..Len(objects) : GetAttributes(p)
    \/ GetMethodsReceive
    \/ GetAttributesReceive
    \/ \E p \in 1..Len(objects) : Release(p)
    \/ DelSend
    \/ DelReceive
    \/ ReceiveRaises
    \/ RemoteStep
    \/ Teardown

HelperSpec == HelperInit /\ [][HelperNext]_vars

\* -------------------------------------------------- a second CubitConnect

\* The path of the log file cubit is started with: the one the caller gave
\* with -log=, or else cupy.temp_log, which __init__ appends.
LogPath(arguments) ==
    IF log_given(arguments)
    THEN LET i == CHOOSE i \in 1..Len(arguments) : StartsWith(arguments[i], LogPrefix)
         IN SubSeq(arguments[i], Len(LogPrefix) + 1, Len(arguments[i]))
    ELSE ExtendedArguments(arguments)[Len(arguments) + 2]

\* The text the python2 process of the second connection writes while it
\* handles its message n: told from the text of the first by its sign.
PeerText(n) == 0 - n

\* CubitConnect(arguments, cubit_bin_path=..) a second time in the same
\* process: its gateway, its parameters and its init message (the messages 1
\* and 2 of its own channel); its cubit may write to the log at its start.
PeerStart(arguments, shared) ==
    LET check == ~log_given(arguments)
    IN /\ peer' = [state |-> "idle", log_check |-> check, path |-> LogPath(arguments),
                   n |-> 2, printed |-> <<>>,
                   arguments |-> IF check THEN ExtendedArguments(arguments)
                                 ELSE arguments,
                   shared |-> shared]
       /\ temp_log' = IF check /\ "init" \in prints
                      THEN Append(temp_log, PeerText(2)) ELSE temp_log

PeerConstruct(arguments) ==
    /\ peer.state = "none"
    /\ PeerStart(arguments, FALSE)
    /\ UNCHANGED <<cubit_bin_path, supplied, cubit_arguments, log_check, prints, nodesets,
                   channels, sent, pending, replies, printed, objects, callables,
                   stack, result, del_raised>>

\* The second CubitConnect is given the list object that the first was given:
\* extend changes the list in place, for both.
PeerConstructSameList ==
    /\ peer.state = "none"
    /\ PeerStart(cubit_arguments, TRUE)
    /\ cubit_arguments' = peer'.arguments
    /\ UNCHANGED <<cubit_bin_path, supplied, log_check, prints, nodesets,
                   channels, sent, pending, replies, printed, objects, callables,
                   stack, result, del_raised>>

\* function of the second connection, up to its send: with its log_check it
\* empties the file cupy.temp_log.
PeerTruncate ==
    /\ peer.state = "idle"
    /\ peer.n < MaxPeerMsgs
    /\ temp_log' = Truncated(peer.log_check, temp_log)
    /\ peer' = [peer EXCEPT !.state = "sent", !.n = @ + 1]
    /\ UNCHANGED <<cubit_bin_path, supplied, cubit_arguments, log_check, prints, nodesets,
                   channels, sent, pending, replies, printed, objects, callables,
                   stack, result, del_raised>>

\* The python2 process of the second connection handles the method call and
\* may write to its log.
PeerRemoteStep ==
    /\ peer.state = "sent"
    /\ temp_log' = IF peer.log_check /\ "method" \in prints
                   THEN Append(temp_log, PeerText(peer.n)) ELSE temp_log
    /\ peer' = [peer EXCEPT !.state = "replied"]
    /\ UNCHANGED <<cubit_bin_path, supplied, cubit_arguments, log_check, prints, nodesets,
                   channels, sent, pending, replies, printed, objects, callables,
                   stack, result, del_raised>>

\* function of the second connection takes its reply and, with its
\* log_check, prints what the file cupy.temp_log holds; printed is what this
\* call printed.
PeerForward ==
    /\ peer.state = "replied"
    /\ peer' = [peer EXCEPT !.state = "idle",
                            !.printed = IF peer.log_check THEN temp_log ELSE <<>>]
    /\ UNCHANGED <<cubit_bin_path, supplied, cubit_arguments, log_check, prints, nodesets,
                   channels, sent, pending, replies, temp_log, printed, objects,
                   callables, stack, result, del_raised>>

\* The handle of the cubit object of the second connection: its python2
\* numbers its objects as the python2 of the first does, and the string of
\* the object tells the two apart.
PeerHandle == PyList(<<PyStr(IdToken(RootId)), PyStr("<obj of the second cubit>")>>)

\* The CubitObjectMain of the second connection, as a python value: a
\* CubitObject whose cubit_connect is the second CubitConnect.
PeerProxy == <<"peer_proxy", PeerHandle>>

\* The caller calls a function of the first connection with the cubit object
\* of the second as its argument.
InvokeWithPeerProxy(p, name) ==
    /\ peer.state # "none"
    /\ Invoke(p, name, PyTuple(<<PeerProxy>>))

\* A connection constructed without -log=, whose cubit wrote to the log at
\* its start, with cubit.mesh found callable; no second connection yet.
PairInit ==
    /\ cubit_bin_path = "/opt/cubit/bin"
    /\ supplied = <<"-nojournal">>
    /\ cubit_arguments = ExtendedArguments(supplied)
    /\ log_check = TRUE
    /\ channels = 1
    /\ sent = 3
    /\ pending = <<>>
    /\ replies = <<>>
    /\ prints = {"init", "method"}
    /\ temp_log = <<2>>
    /\ printed = <<>>
    /\ objects = <<NewObject(Handle(RootId), TRUE, TRUE)>>
    /\ callables = {<<1, "mesh">>}
    /\ stack = <<>>
    /\ result = [kind |-> "callable", val |-> PyNone]
    /\ del_raised = 0
    /\ peer = NoPeer
    /\ nodesets = {}

PairNext ==
    \/ \E c \in callables, args \in ArgChoices : Invoke(c[1], c[2], args)
    \/ \E c \in callables : InvokeWithPeerProxy(c[1], c[2])
    \/ FunctionTruncate
    \/ FunctionSend
    \/ FunctionReceive
    \/ FunctionForward
    \/ FunctionDecode
    \/ RemoteStep
    \/ \E arguments \in ArgLists : PeerConstruct(arguments)
    \/ PeerConstructSameList
    \/ PeerTruncate
    \/ PeerRemoteStep
    \/ PeerForward

PairSpec == PairInit /\ [][PairNext]_vars

\* ------------------------------------------- CubitObject.__getattribute__

\* What object.__getattribute__ finds on a CubitObject: the two attributes
\* that __init__ sets and the methods of the class.
LocalNames ==
    {"cubit_connect", "cubit_id", "isinstance", "get_self_dir", "get_methods",
     "get_attributes", "get_geometry_type", "get_node_ids", "__str__", "__del__"}

\* The names a caller reads on an object.
AccessNames == LocalNames \cup RemoteNames \cup {"id"}

\* A __getattribute__ that asks python2 for every name.
found_nowhere(name) == FALSE

\* try: return object.__getattribute__(self, name): the lookup succeeds.
found_locally(name) == name \in LocalNames

\* CubitObject.__getattribute__(name) of object p: the local attribute, or
\* else self.cubit_connect.get_attribute(self, name).
GetAttributeOf(p, name) ==
    IF found_locally(name)
    THEN /\ stack = <<>>
         /\ Usable(p)
         /\ result' = [kind |-> "local", val |-> PyStr(name)]
         /\ UNCHANGED <<conn, channels, sent, pending, replies, temp_log, printed,
                        objects, callables, stack, del_raised>>
    ELSE GetAttribute(p, name)

AttributeNext ==
    \/ \E p \in 1..Len(objects), name \in AccessNames : GetAttributeOf(p, name)
    \/ GetAttributeReceive
    \/ \E c \in callables : Invoke(c[1], c[2], PyTuple(<<>>))
    \/ FunctionTruncate
    \/ FunctionSend
    \/ FunctionReceive
    \/ FunctionForward
    \/ FunctionDecode
    \/ ReceiveRaises
    \/ RemoteStep
    \/ Teardown

AttributeSpec == HelperInit /\ [][AttributeNext]_vars

\* ------------------------------------------------------------ get_node_ids

\* The largest id a node set of the session has before a call.
MaxNodeSet == 3

\* The largest element of a non-empty set of integers.
Max(S) == CHOOSE x \in S : \A y \in S : y <= x

RECURSIVE Ascending(_)
\* The elements of a set of integers in ascending order.
Ascending(S) ==
    IF S = {} THEN <<>>
    ELSE LET m == CHOOSE x \in S : \A y \in S : x <= y
         IN <<m>> \o Ascending(S \ {m})

\* cubit.get_nodeset_id_list(): the ids of the node sets of the session.
get_nodeset_id_list == PyTuple([i \in 1..Cardinality(nodesets) |->
                                    PyInt(Ascending(nodesets)[i])])

\* A temporary id taken from the number of node sets.
temp_node_set_id_by_count(ids) == Len(Val(ids)) + 1

\* node_set_ids = [0]; node_set_ids.extend(ids); max(node_set_ids) + 1
temp_node_set_id(ids) ==
    Max({0} \cup {Val(Val(ids)[i]) : i \in 1..Len(Val(ids))}) + 1

NodeOps == {"get_node_ids", "utils.get_node_ids"}

RECURSIVE GeometryLookup(_, _, _)
\* self.get_geometry_type() (get_geometry_type(item) in utils) of an item whose
\* isinstance answers True for the k-th name only (for none if k = 0).
GeometryLookup(op, name, k) ==
    LET reply == PyBool(k > 0 /\ GeomNames[IF k > 0 THEN k ELSE 1] = name)
        step == IF op = "get_node_ids" THEN get_geometry_type(name, reply)
                ELSE utils_get_geometry_type(name, reply)
    IN IF step.do = "ask" THEN GeometryLookup(op, Val(step.val), k) ELSE step

\* "nodeset {} {} {}".format(temp_node_set_id, <geometry string>, <id>), kept
\* as the fields the string is made of.
CreateCommand(id, geometry, item) ==
    PyTuple(<<PyStr("nodeset"), PyInt(id), geometry, PyInt(item)>>)

\* "delete nodeset {}".format(temp_node_set_id)
DeleteCommand(id) == PyTuple(<<PyStr("delete nodeset"), PyInt(id)>>)

\* cubit.cmd(command): what the command does to the node sets of the session.
\* A nodeset command creates the set or adds to the set that has this id.
CubitCmd(command, sets) ==
    IF Val(Val(command)[1]) = "nodeset" THEN sets \cup {Val(Val(command)[2])}
    ELSE IF Val(Val(command)[1]) = "delete nodeset" THEN sets \ {Val(Val(command)[2])}
    ELSE sets

\* cubit.get_nodeset_nodes_inclusive(id): the nodes of item, if the set is there.
NodesOf(id, item) ==
    IF id \in nodesets THEN PyTuple(<<PyInt(10 * item + 1), PyInt(10 * item + 2)>>)
    ELSE PyTuple(<<>>)

\* One call to cubit by the frame on top, which goes on with f: the call
\* raises once the channel is closed.
NodeCall(f, sets) ==
    IF channels = 0
    THEN /\ Leave(Pop, Top, "raise", Error("EOFError", PyNone))
         /\ UNCHANGED nodesets
    ELSE /\ stack' = SetTop(f)
         /\ nodesets' = sets
         /\ UNCHANGED <<result, del_raised>>

NodeFixed == <<cubit_bin_path, supplied, cubit_arguments, log_check, prints, peer,
               channels, sent, pending, replies, temp_log, printed, objects, callables>>

\* CubitObject.get_node_ids of object p, or utils.get_node_ids(cubit, item),
\* is called. The calls to cubit it makes are each taken as one step; the
\* messages they are made of are those of get_attribute and function.
GetNodeIds(op, p) ==
    /\ stack = <<>>
    /\ Usable(p)
    /\ ~objects[p].main
    /\ stack' = <<[Frame(op, "list", p, "") EXCEPT !.out = PyList(<<>>)]>>
    /\ UNCHANGED <<NodeFixed, nodesets, result, del_raised>>

\* node_set_ids.extend(cubit.get_nodeset_id_list()); temp_node_set_id = ...
NodeIdsList ==
    /\ \E op \in NodeOps : At(op, "list")
    /\ NodeCall([Top EXCEPT !.args = get_nodeset_id_list,
                            !.call = temp_node_set_id(get_nodeset_id_list),
                            !.out = PyList(Append(Val(Top.out), PyStr("get_nodeset_id_list"))),
                            !.pc = "type"], nodesets)
    /\ UNCHANGED NodeFixed

\* The arguments of format: the geometry type of the item, which may raise,
\* and its string.
NodeIdsType ==
    /\ \E op \in NodeOps : At(op, "type")
    /\ \E k \in 0..4 :
          LET found == GeometryLookup(Top.op, GeomNames[1], k)
          IN IF channels > 0 /\ found.do = "raise"
             THEN /\ Leave(Pop, Top, "raise", found.val)
                  /\ UNCHANGED nodesets
             ELSE NodeCall([Top EXCEPT !.name = Val(get_cubit_string(k)),
                                       !.pc = "create"], nodesets)
    /\ UNCHANGED NodeFixed

\* cubit.cmd("nodeset ...")
NodeIdsCreate ==
    /\ \E op \in NodeOps : At(op, "create")
    /\ LET command == CreateCommand(Top.call, PyStr(Top.name), Top.obj)
       IN NodeCall([Top EXCEPT !.out = PyList(Append(Val(Top.out), command)),
                               !.pc = "nodes"], CubitCmd(command, nodesets))
    /\ UNCHANGED NodeFixed

\* node_ids = cubit.get_nodeset_nodes_inclusive(temp_node_set_id)
NodeIdsNodes ==
    /\ \E op \in NodeOps : At(op, "nodes")
    /\ NodeCall([Top EXCEPT !.ret = NodesOf(Top.call, Top.obj),
                            !.out = PyList(Append(Val(Top.out),
                                       PyTuple(<<PyStr("get_nodeset_nodes_inclusive"),
                                                 PyInt(Top.call)>>))),
                            !.pc = "delete"], nodesets)
    /\ UNCHANGED NodeFixed

\* cubit.cmd("delete nodeset ...")
NodeIdsDelete ==
    /\ \E op \in NodeOps : At(op, "delete")
    /\ LET command == DeleteCommand(Top.call)
       IN NodeCall([Top EXCEPT !.out = PyList(Append(Val(Top.out), command)),
                               !.pc = "return"], CubitCmd(command, nodesets))
    /\ UNCHANGED NodeFixed

\* return node_ids
NodeIdsReturn ==
    /\ \E op \in NodeOps : At(op, "return")
    /\ Leave(Pop, Top, "value", Top.ret)
    /\ UNCHANGED <<NodeFixed, nodesets>>

\* The caller creates or deletes a node set between two calls.
CallerCmd(command) ==
    /\ stack = <<>>
    /\ channels > 0
    /\ nodesets' = CubitCmd(command, nodesets)
    /\ UNCHANGED <<NodeFixed, stack, result, del_raised>>

NodeNext ==
    \/ \E op \in NodeOps, p \in 1..Len(objects) : GetNodeIds(op, p)
    \/ NodeIdsList
    \/ NodeIdsType
    \/ NodeIdsCreate
    \/ NodeIdsNodes
    \/ NodeIdsDelete
    \/ NodeIdsReturn
    \/ \E n \in 1..MaxNodeSet : CallerCmd(CreateCommand(n, PyStr("volume"), 1))
    \/ \E n \in 1..MaxNodeSet : CallerCmd(DeleteCommand(n))
    \/ Teardown

NodeSpec == HelperInit /\ [][NodeNext]_vars

\* ------------------------------------------------------------ cubitpy_types

\* The members of GeometryType: vertex, curve, surface, volume.
GeometryTypes == {PyGeometry(k) : k \in 1..4}

\* The members of FiniteElementObject: hex, tet, face, triangle, edge, node.
FiniteElementObjects == {PyFiniteElement(k) : k \in 1..6}

FiniteElementNode == PyFiniteElement(6)

\* The members of BoundaryConditionType.
BoundaryConditionTypes ==
    {"dirichlet", "neumann", "point_coupling", "beam_to_solid_volume_meshtying",
     "beam_to_solid_surface_meshtying", "beam_to_solid_surface_contact",
     "solid_to_solid_surface_contact", "fsi_coupling", "ale_dirichlet"}

\* raise ValueError("Got unexpected type {}!".format(self))
UnexpectedType(item) == Error("ValueError", item)

\* GeometryType.get_dat_bc_section_string and
\* FiniteElementObject.get_dat_bc_section_string.
get_dat_bc_section_string(item) ==
    IF item = PyGeometry(1) THEN Returns("POINT")
    ELSE IF item = PyGeometry(2) THEN Returns("LINE")
    ELSE IF item = PyGeometry(3) THEN Returns("SURF")
    ELSE IF item = PyGeometry(4) THEN Returns("VOL")
    ELSE IF item = FiniteElementNode THEN Returns("POINT")
    ELSE Raises(UnexpectedType(item))

\* raise ValueError("No implemented case for {} and {}!".format(self, geometry_type))
NoImplementedCase(self, geometry_type) ==
    Error("ValueError", PyTuple(<<PyStr(self), geometry_type>>))

\* A lookup that falls back to an empty header.
get_dat_bc_section_header_with_default(self, geometry_type) ==
    IF self = "point_coupling" /\ geometry_type = PyGeometry(1)
    THEN Returns("DESIGN POINT COUPLING CONDITIONS")
    ELSE Returns("")

\* BoundaryConditionType.get_dat_bc_section_header(self, geometry_type)
get_dat_bc_section_header(self, geometry_type) ==
    IF self = "dirichlet" \/ self = "neumann"
    THEN LET self_string == IF self = "dirichlet" THEN "DIRICH" ELSE "NEUMANN"
             section == get_dat_bc_section_string(geometry_type)
         IN IF section.do = "raise" THEN section
            ELSE Returns("DESIGN " \o section.val \o " " \o self_string \o " CONDITIONS")
    ELSE IF self = "beam_to_solid_volume_meshtying" /\ geometry_type = PyGeometry(4)
    THEN Returns("BEAM INTERACTION/BEAM TO SOLID VOLUME MESHTYING VOLUME")
    ELSE IF self = "beam_to_solid_surface_meshtying" /\ geometry_type = PyGeometry(3)
    THEN Returns("BEAM INTERACTION/BEAM TO SOLID SURFACE MESHTYING SURFACE")
    ELSE IF self = "beam_to_solid_surface_contact" /\ geometry_type = PyGeometry(3)
    THEN Returns("BEAM INTERACTION/BEAM TO SOLID SURFACE CONTACT SURFACE")
    ELSE IF self = "point_coupling"
            /\ (geometry_type = PyGeometry(1) \/ geometry_type = FiniteElementNode)
    THEN Returns("DESIGN POINT COUPLING CONDITIONS")
    ELSE IF self = "solid_to_solid_surface_contact"
            /\ (geometry_type = PyGeometry(3) \/ geometry_type = FiniteElementNode)
    THEN Returns("DESIGN SURF MORTAR CONTACT CONDITIONS 3D")
    ELSE IF self = "fsi_coupling"
            /\ (geometry_type = PyGeometry(3) \/ geometry_type = FiniteElementNode)
    THEN Returns("DESIGN FSI COUPLING SURF CONDITIONS")
    ELSE IF self = "ale_dirichlet"
            /\ (geometry_type = PyGeometry(3) \/ geometry_type = FiniteElementNode)
    THEN Returns("DESIGN SURF ALE DIRICH CONDITIONS")
    ELSE Raises(NoImplementedCase(self, geometry_type))

\* The calls of the lookup: a boundary condition type with a geometry type or
\* a finite element object.
TypeFrames ==
    {[NoFrame EXCEPT !.op = "get_dat_bc_section_header", !.pc = "call", !.name = bc,
                     !.args = g] :
        bc \in BoundaryConditionTypes, g \in GeometryTypes \cup FiniteElementObjects}

\* No connection is needed for the lookup.
TypesInit ==
    /\ cubit_bin_path = "/opt/cubit/bin"
    /\ supplied = <<"-nojournal", "-log=my.log">>
    /\ cubit_arguments = supplied
    /\ log_check = FALSE
    /\ channels = 0
    /\ sent = 0
    /\ pending = <<>>
    /\ replies = <<>>
    /\ temp_log = <<>>
    /\ prints = {}
    /\ printed = <<>>
    /\ objects = <<>>
    /\ callables = {}
    /\ stack \in {<<f>> : f \in TypeFrames}
    /\ result = NoResult
    /\ del_raised = 0
    /\ peer = NoPeer
    /\ nodesets = {}

\* bc_type.get_dat_bc_section_header(geometry_type) returns or raises.
GetDatBcSectionHeader ==
    /\ At("get_dat_bc_section_header", "call")
    /\ LET header == get_dat_bc_section_header(Top.name, Top.args)
       IN IF header.do = "raise" THEN Leave(Pop, Top, "raise", header.val)
          ELSE Leave(Pop, Top, "value", PyStr(header.val))
    /\ UNCHANGED <<conn, channels, sent, pending, replies, temp_log, printed,
                   objects, callables>>

TypesNext == GetDatBcSectionHeader

TypesSpec == TypesInit /\ [][TypesNext]_vars

\* ------------------------------------------------------------------ claims

\* This step hands a message to channel.send; NewMsg is that message.
Sends == sent' = sent + 1
NewMsg == pending'[Len(pending')]
SendsKind(kinds) == Sends /\ Kind(NewMsg.msg) \in kinds

\* This step finalizes object p.
Releases(p) == ~objects[p].released /\ objects'[p].released

Ordinary == {p \in 1..Len(objects) : ~objects[p].main}

(* C1: on one connection at most one request is outstanding: a message is
   sent only when the reply to every earlier message has been received, also
   when __del__ runs while another call is between its send and receive. *)
C1_OneOutstanding == Len(pending) + Len(replies) <= 1

(* C2: releasing a proxy sends ["delete", id] if and only if there is a
   channel at that moment: without a channel the release sends nothing,
   receives nothing, returns at once and raises nothing; with a channel it
   goes on to send, and what it sends is the delete message of its object. *)
C2_DeleteIffChannel ==
    [][ /\ SendsKind({"delete"}) =>
              /\ channels > 0
              /\ At("__del__", "send")
              /\ NewMsg.msg = PyList(<<PyStr("delete"), objects[Top.obj].cubit_id>>)
        /\ \A p \in Ordinary : Releases(p) =>
              IF channels = 0
              THEN UNCHANGED <<sent, pending, replies, stack, result, del_raised,
                               temp_log, printed>>
              ELSE /\ Len(stack') = Len(stack) + 1
                   /\ stack'[Len(stack')].op = "__del__"
                   /\ stack'[Len(stack')].obj = p
                   /\ stack'[Len(stack')].pc = "send"
                   /\ UNCHANGED <<sent, pending, replies, result, del_raised>>
        /\ (At("__del__", "send") /\ channels > 0 /\ Len(stack') = Len(stack)
               /\ stack' # stack) => SendsKind({"delete"})
      ]_vars

\* One proxy was released with a channel and sent its delete, another one
\* was released after the channel was gone: nothing sent, nothing raised.
C2_Witness ==
    /\ channels = 0 /\ stack = <<>> /\ del_raised = 0
    /\ \E p, q \in Ordinary :
          /\ objects[p].released /\ objects[p].deletes = 1
          /\ objects[q].released /\ objects[q].deletes = 0

(* C3: a proxy that is not the root sends one delete message for its id when
   it is released with a channel, and never a second one. *)
C3_OneDeletePerProxy ==
    [][ /\ \A p \in 1..Len(objects') : objects'[p].deletes <= 1
        /\ \A i \in 1..Len(stack') : stack'[i].op = "__del__" =>
              objects'[stack'[i].obj].deletes = IF stack'[i].pc = "send" THEN 0 ELSE 1
        /\ (At("__del__", "receive") /\ stack' = Pop /\ del_raised' = del_raised)
              => objects'[Top.obj].deletes = 1
      ]_vars

C3_Witness ==
    \E p \in Ordinary : objects[p].released /\ objects[p].deletes = 1 /\ stack = <<>>

(* C4: when several live proxies carry the same remote id, a delete message
   for that id is sent only when the last of them is released: no delete is
   sent for an id that another proxy, not yet released, still carries. *)
C4_DeleteAtLastAlias ==
    [][ SendsKind({"delete"}) =>
          \A q \in Ordinary : ~objects[q].released =>
              cubit_item_to_id(objects[q].cubit_id) # cubit_item_to_id(Val(NewMsg.msg)[2])
      ]_vars

(* C5: releasing the root proxy is a no-op: no message is sent, with or
   without a channel, and the connection is left as it was. *)
C5_RootReleaseNoOp ==
    [][ \A p \in 1..Len(objects) : (objects[p].main /\ Releases(p)) =>
           UNCHANGED <<conn, channels, sent, pending, replies, temp_log, printed,
                       stack, result, del_raised>>
      ]_vars

C5_Witness ==
    \E p \in 1..Len(objects) : objects[p].main /\ objects[p].released /\ channels > 0

(* C6: every access to a name that is no attribute in python3 sends one
   ["iscallable", id, name] message, at every access anew. On a true reply the
   access returns a callable and sends no method call; on a false reply it
   goes on to send one method call [id, name, []] with no arguments. A method
   call is sent only by a returned callable that is called, or after a false
   reply. *)
C6_AttributeResolution ==
    [][ /\ SendsKind({"iscallable"}) =>
              /\ stack = <<>> /\ Len(stack') = 1
              /\ stack'[1].op = "get_attribute"
              /\ NewMsg.msg = PyList(<<PyStr("iscallable"),
                                       objects[stack'[1].obj].cubit_id,
                                       PyStr(stack'[1].name)>>)
        /\ (stack = <<>> /\ stack' # <<>> /\ stack'[1].op = "get_attribute") =>
              SendsKind({"iscallable"})
        /\ (At("get_attribute", "receive") /\ replies # <<>> /\ channels' > 0
               /\ replies' = Tail(replies)) =>
              /\ ~Sends
              /\ IF Truthy(Head(replies))
                 THEN /\ stack' = <<>>
                      /\ result'.kind = "callable"
                      /\ <<Top.obj, Top.name>> \in callables'
                 ELSE /\ Len(stack') = 1
                      /\ stack'[1].op = "function" /\ stack'[1].pc = "truncate"
                      /\ stack'[1].obj = Top.obj /\ stack'[1].name = Top.name
                      /\ stack'[1].args = PyTuple(<<>>)
                      /\ stack'[1].access /\ stack'[1].call = 0
        /\ (stack' # <<>> /\ stack'[1].op = "function"
               /\ (stack = <<>> \/ stack[1].op # "function")) =>
              \/ stack = <<>> /\ <<stack'[1].obj, stack'[1].name>> \in callables
                              /\ ~stack'[1].access
              \/ At("get_attribute", "receive") /\ ~Truthy(Head(replies))
        /\ SendsKind({"method"}) =>
              /\ At("function", "send") /\ Top.call = 0
              /\ stack'[Len(stack)].call # 0
              /\ Top.access =>
                    NewMsg.msg = PyList(<<objects[Top.obj].cubit_id, PyStr(Top.name),
                                          PyList(<<>>)>>)
        /\ \A i \in 1..Len(stack') : stack'[i].op = "function" =>
              (stack'[i].call = 0 <=> stack'[i].pc \in {"truncate", "send"})
      ]_vars

\* A first access got a true reply and returned a callable; a second one got
\* a false reply and has sent its method call.
C6_Witness ==
    /\ callables # {}
    /\ At("function", "receive") /\ Top.access

NoDuplicates(seq) == \A i, j \in 1..Len(seq) : seq[i] = seq[j] => i = j

(* C7: in log-capture mode the text a method call prints from the log is the
   text written while python2 handled that call: no text of an earlier method
   call or of an earlier raw message is in it, and no text is printed twice. *)
C7_ForwardsOwnText ==
    [][ printed' # printed =>
          /\ log_check
          /\ At("function", "forward")
          /\ printed' = printed \o temp_log
          /\ \A i \in 1..Len(temp_log) : temp_log[i] = Top.call
          /\ NoDuplicates(printed')
      ]_vars

\* A second method call printed its text after a first one had printed its own.
C7_Witness == Len(printed) >= 2

(* C8: a method call in log-capture mode empties the log file if it is not
   empty and encodes the arguments, sends [receiver, method, arguments], waits
   for the reply, prints the log, and only then decodes the reply: the log
   file is empty when the method call is sent, and the log is printed once
   per call, also when decoding then fails. *)
C8_CallOrder ==
    [][ /\ \A i \in 1..Len(stack) :
              (stack[i].op = "function" /\ i <= Len(stack') /\ stack'[i] # stack[i]) =>
                 /\ i = Len(stack)
                 /\ <<stack[i].pc, stack'[i].pc>> \in
                       {<<"truncate", "send">>, <<"send", "receive">>,
                        <<"receive", "forward">>, <<"forward", "decode">>}
        /\ (At("function", "truncate") /\ stack' # stack /\ Len(stack') = Len(stack)) =>
              /\ log_check => temp_log' = <<>>
              /\ ~log_check => temp_log' = temp_log
              /\ ~Sends /\ printed' = printed
        /\ SendsKind({"method"}) =>
              /\ At("function", "send")
              /\ log_check => temp_log = <<>>
              /\ NewMsg.msg = PyList(<<objects[Top.obj].cubit_id, PyStr(Top.name), Top.out>>)
        /\ (At("function", "forward") /\ stack' # stack /\ Len(stack') = Len(stack)) =>
              /\ printed' = IF log_check THEN printed \o temp_log ELSE printed
              /\ objects' = objects /\ result' = result
        /\ (stack # <<>> /\ Top.op = "function" /\ Len(stack') < Len(stack)) =>
              \/ Top.pc = "decode" /\ result'.kind \in {"value", "raise"}
              \/ Top.pc \in {"send", "receive"} /\ channels = 0 /\ result'.kind = "raise"
        /\ (printed' # printed) => At("function", "forward")
      ]_vars

\* A call printed its log and then failed to decode its reply.
C8_Witness ==
    /\ log_check /\ printed # <<>> /\ stack = <<>>
    /\ result.kind = "raise" /\ result.val[2] = "TypeError"

RawKinds == {"iscallable", "isinstance", "get_self_dir", "delete"}
RawOps == {"get_attribute", "isinstance", "get_self_dir", "__del__"}

(* C9: the raw messages iscallable, isinstance, get_self_dir and delete do no
   log capture: neither their send nor their receive empties the log file or
   prints it, with and without log_check. *)
C9_RawNoLogCapture ==
    [][ ( \/ SendsKind(RawKinds)
          \/ stack # <<>> /\ Top.op \in RawOps /\ stack' # stack /\ Len(stack') <= Len(stack)
          \/ \E p \in 1..Len(objects) : Releases(p) )
        => temp_log' = temp_log /\ printed' = printed
      ]_vars

\* get_self_dir returned while the log file held text.
C9_Witness ==
    /\ log_check /\ temp_log # <<>> /\ stack = <<>>
    /\ result.kind = "value" /\ result.val = SelfDir

(* C10: after construction log_check is set if and only if no launch argument
   begins with "-log="; when it is set, the init message carries the supplied
   arguments followed by "-log" and the path of the log file, when it is not
   set it carries the arguments as supplied and the log file is never
   emptied, read or printed. *)
C10_LogCheck ==
    [][ /\ (cubit_bin_path # "" /\ ~At("__init__", "start")') =>
              (log_check' <=> \A i \in 1..Len(supplied) :
                                 ~StartsWith(supplied[i], "-log="))
        /\ SendsKind({"init"}) =>
              NewMsg.msg = PyList(<<PyStr("init"),
                  PyList([i \in 1..Len(supplied) + (IF log_check THEN 2 ELSE 0) |->
                      PyStr(IF i <= Len(supplied) THEN supplied[i]
                            ELSE IF i = Len(supplied) + 1 THEN "-log"
                            ELSE TempLogPath)])>>)
        /\ (~log_check /\ ~log_check') => temp_log' = temp_log /\ printed' = printed
      ]_vars

\* Log capture is on, the init message went out with the two arguments more,
\* and a method call has printed the log.
C10_Witness ==
    /\ log_check /\ objects # <<>> /\ printed # <<>>
    /\ cubit_arguments = supplied \o <<"-log", TempLogPath>>

\* The objects of class CubitObjectMain among objs.
Roots(objs) == {p \in 1..Len(objs) : objs[p].main}

(* C11: a constructor without cubit_bin_path raises ValueError before anything
   else: no gateway and no channel is made, no message is sent, and no root
   object exists, then and ever after. *)
C11_NoBinPathFails ==
    [][ cubit_bin_path = "" =>
          /\ channels' = 0 /\ sent' = 0 /\ pending' = <<>> /\ replies' = <<>>
          /\ objects' = <<>> /\ log_check' = FALSE /\ cubit_arguments' = supplied
          /\ stack' # stack =>
                /\ At("__init__", "start") /\ stack' = <<>>
                /\ result' = [kind |-> "raise", val |-> Error("ValueError", PyNone)]
      ]_vars

\* The constructor was called without cubit_bin_path and has raised.
C11_Witness ==
    /\ cubit_bin_path = "" /\ stack = <<>>
    /\ result.kind = "raise" /\ result.val[2] = "ValueError"

(* C12: the first message of a connection is the dictionary of parameters, the
   second is ["init", cubit_arguments], and no later message is one of the
   two; the reply to init becomes the id of the root object, which is made in
   the step that receives that reply; a constructor that returns has made one
   root object, and no other step ever makes a CubitObjectMain. *)
C12_InitSequence ==
    [][ /\ Sends =>
              /\ NewMsg.n = 1 <=> At("__init__", "send_parameters")
              /\ NewMsg.n = 1 <=> NewMsg.msg = Parameters(log_check)
              /\ NewMsg.n = 2 <=> At("__init__", "send_init")
              /\ NewMsg.n = 2 <=> NewMsg.msg = InitMessage(cubit_arguments)
              /\ NewMsg.n > 2 => Kind(NewMsg.msg) \notin {"parameters", "init"}
        /\ Roots(objects') \subseteq {1}
        /\ Roots(objects') # Roots(objects) =>
              /\ At("__init__", "receive_init") /\ replies # <<>>
              /\ objects = <<>>
              /\ objects' = <<NewObject(Head(replies), TRUE, TRUE)>>
              /\ cubit_item_to_id(Head(replies)) = PyInt(RootId)
              /\ stack' = <<>> /\ result'.kind = "value"
        /\ (stack # <<>> /\ stack[1].op = "__init__" /\ stack' = <<>>
               /\ result'.kind = "value") => Roots(objects') = {1}
        /\ (stack # <<>> /\ stack[1].op = "__init__") => objects = <<>>
      ]_vars

\* The root exists next to an object that a method call of it returned.
C12_Witness ==
    /\ Roots(objects) = {1} /\ Len(objects) >= 2 /\ sent >= 3 /\ stack = <<>>

\* A handle as the specification classifies it: a list that is not empty and
\* whose first item is a string that begins with the prefix.
IsHandleList(v) ==
    /\ Tag(v) = "list" /\ Val(v) # <<>>
    /\ Tag(Val(v)[1]) = "str" /\ StartsWith(Val(Val(v)[1]), IdPrefix)

\* A string, an integer (bool is one), a float or None.
IsPrimitive(v) == Tag(v) \in {"str", "int", "bool", "float", "none"}

\* A list whose items are all handles or primitives.
IsDecodableList(v) ==
    /\ Tag(v) = "list"
    /\ \A i \in 1..Len(Val(v)) : IsHandleList(Val(v)[i]) \/ IsPrimitive(Val(v)[i])

(* C13: decoding the reply of a method call gives a new CubitObject over that
   reply when the reply is a handle; else, for a list of handles and
   primitives, a list of the same length and order in which each handle has
   become a new CubitObject over it and each primitive is kept; else, for a
   primitive, the reply itself. *)
C13_DecodeReply ==
    [][ (At("function", "decode") /\ stack' # stack) =>
          LET r == Top.ret
              n == Len(objects)
              out == Val(result'.val)
          IN IF IsHandleList(r)
             THEN /\ result' = [kind |-> "value", val |-> PyProxy(n + 1)]
                  /\ objects' = Append(objects, NewObject(r, FALSE, TRUE))
             ELSE IF IsDecodableList(r)
             THEN /\ result'.kind = "value" /\ Tag(result'.val) = "list"
                  /\ Len(out) = Len(Val(r))
                  /\ SubSeq(objects', 1, n) = objects
                  /\ Len(objects') =
                        n + Cardinality({i \in 1..Len(Val(r)) : IsHandleList(Val(r)[i])})
                  /\ \A i \in 1..Len(Val(r)) :
                        IF IsHandleList(Val(r)[i])
                        THEN /\ Tag(out[i]) = "proxy"
                             /\ Val(out[i]) \in (n + 1)..Len(objects')
                             /\ objects'[Val(out[i])] = NewObject(Val(r)[i], FALSE, TRUE)
                             /\ \A j \in 1..Len(Val(r)) : out[j] = out[i] => j = i
                        ELSE out[i] = Val(r)[i]
             ELSE IsPrimitive(r) =>
                    /\ result' = [kind |-> "value", val |-> r]
                    /\ objects' = objects
      ]_vars

\* The item of a list that is neither a handle nor a primitive, or the reply.
Offending(r) ==
    IF Tag(r) = "list"
    THEN Val(r)[CHOOSE i \in 1..Len(Val(r)) :
                  /\ ~(IsHandleList(Val(r)[i]) \/ IsPrimitive(Val(r)[i]))
                  /\ \A j \in 1..(i - 1) : IsHandleList(Val(r)[j]) \/ IsPrimitive(Val(r)[j])]
    ELSE r

(* C14: a reply that is no handle, no list of handles and primitives and no
   primitive makes the call raise TypeError with the value that was not
   expected; the call returns nothing and sends nothing more. *)
C14_DecodeError ==
    [][ ( /\ At("function", "decode") /\ stack' # stack
          /\ ~IsHandleList(Top.ret) /\ ~IsDecodableList(Top.ret)
          /\ ~IsPrimitive(Top.ret) ) =>
          /\ result' = [kind |-> "raise", val |-> Error("TypeError", Offending(Top.ret))]
          /\ stack' = Pop
          /\ UNCHANGED <<sent, pending, replies>>
      ]_vars

\* A handle of any kind of sequence: a list or tuple that is not empty and
\* whose first item is a string that begins with the prefix.
IsHandleSequence(v) ==
    /\ Tag(v) \in {"list", "tuple"} /\ Val(v) # <<>>
    /\ Tag(Val(v)[1]) = "str" /\ StartsWith(Val(Val(v)[1]), IdPrefix)

\* What follows the prefix in the first item of v.
IdTokenOf(v) == SubSeq(Val(Val(v)[1]), Len(IdPrefix) + 1, Len(Val(Val(v)[1])))

(* C15: cubit_item_to_id is total: whatever it is called with, also an id
   string that is the prefix alone or the prefix and no digits, it returns an
   integer or None and never raises. *)
C15_ClassifyTotal ==
    [][ (At("cubit_item_to_id", "call") /\ stack' # stack) =>
          /\ result'.kind = "value"
          /\ result'.val = PyNone \/ Tag(result'.val) = "int"
      ]_vars

(* C16: cubit_item_to_id returns the decimal integer of the id token if and
   only if its argument is a sequence of any kind that is not empty and whose
   first item is a string with the prefix "cp2t3id_", and None for every other
   value; ["cp2t3id_42", "<Vertex>"] gives 42; nothing else changes. *)
C16_ClassifyHandle ==
    [][ (At("cubit_item_to_id", "call") /\ stack' # stack) =>
          /\ result'.kind = "value"
          /\ IF IsHandleSequence(Top.args)
             THEN /\ Tag(result'.val) = "int"
                  /\ (IdTokenOf(Top.args) # "" /\ AllDigits(IdTokenOf(Top.args))) =>
                         Val(result'.val) = DecimalValue(IdTokenOf(Top.args))
             ELSE result'.val = PyNone
          /\ Top.args = PyList(<<PyStr("cp2t3id_42"), PyStr("<Vertex>")>>) =>
                result'.val = PyInt(42)
          /\ UNCHANGED <<conn, channels, sent, pending, replies, temp_log, printed,
                         objects, callables, del_raised>>
      ]_vars

(* C17: is_base_type is true exactly for a string, an integer (a bool is one),
   a float and None; it is false for every list and tuple, also the empty
   ones, for a dictionary and for any other object; it never raises and
   changes nothing. *)
C17_IsBaseType ==
    [][ (At("is_base_type", "call") /\ stack' # stack) =>
          /\ result' = [kind |-> "value",
                        val |-> PyBool(Tag(Top.args) \in
                                         {"str", "int", "bool", "float", "none"})]
          /\ stack' = <<>>
          /\ UNCHANGED <<conn, channels, sent, pending, replies, temp_log, printed,
                         objects, callables, del_raised>>
      ]_vars

\* is_base_type was called with what is no base type and returned False.
C17_Witness == stack = <<>> /\ result = [kind |-> "value", val |-> PyBool(FALSE)]

\* The number a python number stands for.
NumVal(v) == IF Tag(v) = "bool" THEN (IF Val(v) THEN 1 ELSE 0) ELSE Val(v)

(* C18: an integer, a float or a string that is serialized as the argument of
   a call and comes back as the reply is decoded to itself: the same value of
   the same type; a bool or a numpy float comes back as the int or float of
   the same value. *)
C18_RoundTrip ==
    [][ ( /\ At("function", "decode") /\ stack' # stack
          /\ Top.name = "echo" /\ Val(Top.args) # <<>> ) =>
          LET x == Val(Top.args)[1]
          IN /\ Tag(x) \in {"int", "float", "str"} =>
                   result' = [kind |-> "value", val |-> x]
             /\ Tag(x) \in {"bool", "np_float64"} =>
                   /\ result'.kind = "value"
                   /\ Tag(result'.val) = (IF Tag(x) = "bool" THEN "int" ELSE "float")
                   /\ Val(result'.val) = NumVal(x)
             /\ Tag(x) \in {"int", "float", "str", "bool", "np_float64"} =>
                   objects' = objects
      ]_vars

\* A negative integer went out as an argument and came back as the result.
C18_Witness ==
    /\ stack = <<>> /\ sent = 3
    /\ result = [kind |-> "value", val |-> PyInt(0 - 3)]

IsNumber(v) == Tag(v) \in {"bool", "int", "float", "np_float64", "np_int64"}

\* out has the shape of item: a list for every list, tuple and array, of the
\* same length and with the items in their places, the id of the object for a
\* CubitObject, a number of the same value for a number.
RECURSIVE SameShape(_, _)
SameShape(item, out) ==
    IF IsSequence(item)
    THEN /\ Tag(out) = "list" /\ Len(Val(out)) = Len(Val(item))
         /\ \A i \in 1..Len(Val(item)) : SameShape(Val(item)[i], Val(out)[i])
    ELSE IF Tag(item) = "proxy" THEN out = objects[Val(item)].cubit_id
    ELSE IF IsNumber(item) THEN IsNumber(out) /\ NumVal(out) = NumVal(item)
    ELSE ~IsSequence(out) /\ ~IsNumber(out) /\ Tag(out) # "proxy"

(* C19: serializing the arguments keeps their structure: every list, tuple
   and array, at every depth, becomes a list of the same length with its items
   in the same order, and every CubitObject becomes its own id at its place. *)
C19_SerializeKeepsShape ==
    [][ (At("function", "truncate") /\ stack' # stack) =>
          /\ Len(stack') = Len(stack)
          /\ stack'[Len(stack')].args = Top.args
          /\ SameShape(Top.args, stack'[Len(stack')].out)
          /\ objects' = objects
      ]_vars

\* A list in a list, with an object at each depth, has been serialized.
C19_Witness ==
    /\ At("function", "send")
    /\ Top.args = PyTuple(<<PyList(<<PyList(<<PyProxy(2), PyInt(5)>>), PyProxy(2)>>)>>)
    /\ Top.out = PyList(<<PyList(<<PyList(<<Handle(2), PyInt(5)>>), Handle(2)>>)>>)

\* Every float of item is a python float in out and every integer a python
\* int, at every depth.
RECURSIVE Normalized(_, _)
Normalized(item, out) ==
    IF IsSequence(item)
    THEN /\ Tag(out) = "list" /\ Len(Val(out)) = Len(Val(item))
         /\ \A i \in 1..Len(Val(item)) : Normalized(Val(item)[i], Val(out)[i])
    ELSE IF Tag(item) \in {"float", "np_float64"} THEN out = PyFloat(Val(item))
    ELSE IF Tag(item) \in {"int", "bool", "np_int64"} THEN out = PyInt(NumVal(item))
    ELSE TRUE

(* C20: serializing normalizes the numbers: every float among the arguments
   is sent as a python float and every integer as a python int, at every
   depth; no numpy number, such as an item of an array, is left in a message. *)
C20_NumbersNormalized ==
    [][ (At("function", "truncate") /\ stack' # stack) =>
          Normalized(Top.args, stack'[Len(stack')].out)
      ]_vars

\* The canonical strings of the geometry kinds, by the value of the member.
CanonicalStrings == <<"vertex", "curve", "surface", "volume">>

\* What the encoding leaves to the else branch: no sequence, CubitObject,
\* number or member of an enumeration.
IsOther(v) == Tag(v) \in {"none", "str", "dict"}

\* Every geometry kind of item is its canonical string in out and every other
\* item is itself, at every depth.
RECURSIVE GeometryEncoded(_, _)
GeometryEncoded(item, out) ==
    IF IsSequence(item)
    THEN /\ Tag(out) = "list" /\ Len(Val(out)) = Len(Val(item))
         /\ \A i \in 1..Len(Val(item)) : GeometryEncoded(Val(item)[i], Val(out)[i])
    ELSE IF Tag(item) = "geometry"
    THEN /\ Val(item) \in 1..4
         /\ out = PyStr(CanonicalStrings[Val(item)])
    ELSE IsOther(item) => out = item

(* C21: serializing the arguments turns every geometry kind (vertex, curve,
   surface, volume) into its canonical string "vertex", "curve", "surface",
   "volume", at every depth, and leaves unchanged every item that is no
   sequence, CubitObject, float, integer or member of an enumeration. *)
C21_GeometryEncoded ==
    [][ (At("function", "truncate") /\ stack' # stack) =>
          GeometryEncoded(Top.args, stack'[Len(stack')].out)
      ]_vars

\* A geometry kind two lists deep, next to None, has been serialized.
C21_Witness ==
    /\ At("function", "send")
    /\ Top.args = PyTuple(<<PyList(<<PyGeometry(3), PyList(<<PyGeometry(4), PyNone>>)>>)>>)
    /\ Top.out = PyList(<<PyList(<<PyStr("surface"), PyList(<<PyStr("volume"), PyNone>>)>>)>>)

\* The names isinstance is asked with, in the order of the kinds.
KindOrder == <<"cubitpy_vertex", "cubitpy_curve", "cubitpy_surface", "cubitpy_volume">>

\* The first n of these names.
KindPrefix(n) == [i \in 1..n |-> PyStr(KindOrder[i])]

\* A lookup of the geometry kind is the call in progress.
InLookup == stack # <<>> /\ Top.op \in LookupOps

\* This step takes the oldest reply.
TakesReply == channels > 0 /\ channels' > 0 /\ replies # <<>> /\ replies' = Tail(replies)

(* C22: a lookup of the geometry kind asks isinstance for vertex, curve,
   surface, volume in this order, returns the kind of the first name whose
   reply is true and sends no isinstance after it; CubitObject.get_geometry_type
   and utils.get_geometry_type of an object that is no group send the same
   messages and return the same kind for the same replies. *)
C22_GeometryLookup ==
    [][ /\ (Sends /\ NewMsg.op \in LookupOps) =>
              LET f == stack'[Len(stack')]
                  n == Len(Val(f.out))
              IN /\ n \in 1..4
                 /\ Val(f.out) = KindPrefix(n)
                 /\ (n = 1) <=> (stack = <<>>)
                 /\ NewMsg.msg = PyList(<<PyStr("isinstance"), objects[f.obj].cubit_id,
                                          PyStr(KindOrder[n])>>)
        /\ (InLookup /\ Top.pc = "receive" /\ TakesReply) =>
              LET n == Len(Val(Top.out))
              IN IF Truthy(Head(replies))
                 THEN /\ stack' = Pop
                      /\ result' = [kind |-> "value", val |-> PyGeometry(n)]
                      /\ ~Sends
                 ELSE n < 4 =>
                      /\ Len(stack') = Len(stack)
                      /\ stack'[Len(stack')] = [Top EXCEPT !.pc = "send",
                                                           !.name = KindOrder[n + 1]]
                      /\ result' = result
                      /\ ~Sends
        /\ (InLookup /\ stack' = Pop /\ result'.kind = "value") =>
              TakesReply /\ Truthy(Head(replies))
      ]_vars

\* CubitObject.get_geometry_type has returned curve after two messages, and
\* utils.get_geometry_type of the same object has asked the same two.
C22_Witness ==
    /\ result = [kind |-> "value", val |-> PyGeometry(2)]
    /\ At("utils.get_geometry_type", "receive")
    /\ Val(Top.out) = KindPrefix(2)
    /\ replies = <<PyBool(TRUE)>>
    /\ sent = 6

\* The error e tells which object p it is about.
NamesObject(e, p) ==
    e[3] \in {PyProxy(p), objects[p].cubit_id, Val(objects[p].cubit_id)[1],
              Val(objects[p].cubit_id)[2]}

(* C23: a lookup of the geometry kind whose four replies are all false raises
   a TypeError after exactly four isinstance messages; the error names the
   object that matched nothing, and no kind is returned in its place. *)
C23_NoMatchRaises ==
    [][ (InLookup /\ Top.pc = "receive" /\ TakesReply /\ ~Truthy(Head(replies))
           /\ Len(Val(Top.out)) = 4) =>
          /\ Val(Top.out) = KindPrefix(4)
          /\ ~Sends
          /\ stack' = Pop
          /\ result'.kind = "raise"
          /\ result'.val[2] = "TypeError"
          /\ NamesObject(result'.val, Top.obj)
      ]_vars

MemberOps == {"get_self_dir", "get_methods", "get_attributes"}

\* The names of the pairs of reply r whose flag is flag, in the order of r.
RECURSIVE NamesFlagged(_, _, _)
NamesFlagged(r, i, flag) ==
    IF i > Len(Val(r)) THEN <<>>
    ELSE (IF Truthy(Val(Val(r)[i])[2]) = flag THEN <<Val(Val(r)[i])[1]>> ELSE <<>>)
         \o NamesFlagged(r, i + 1, flag)

(* C24: the members of an object are never cached: every call of
   get_self_dir, get_methods and get_attributes sends one ["get_self_dir", id]
   of its own and returns what the reply to it says; of one reply, get_methods
   returns the names flagged callable and get_attributes the other names, each
   in the order of the reply, so that every name is in exactly one of them. *)
C24_MembersFresh ==
    [][ /\ \A op \in MemberOps :
              (stack = <<>> /\ stack' # <<>> /\ stack'[1].op = op) =>
                 /\ Sends
                 /\ NewMsg.msg = PyList(<<PyStr("get_self_dir"),
                                          objects[stack'[1].obj].cubit_id>>)
        /\ (Sends /\ NewMsg.op \in MemberOps) => stack = <<>>
        /\ (stack # <<>> /\ Top.op \in MemberOps /\ stack' = Pop
               /\ result'.kind = "value") =>
              /\ TakesReply
              /\ Top.pc = "receive"
              /\ LET r == Head(replies)
                 IN CASE Top.op = "get_self_dir" -> result'.val = r
                      [] Top.op = "get_methods" ->
                            /\ result'.val = PyList(NamesFlagged(r, 1, TRUE))
                            /\ Len(NamesFlagged(r, 1, TRUE)) + Len(NamesFlagged(r, 1, FALSE))
                                  = Len(Val(r))
                      [] OTHER ->
                            /\ result'.val = PyList(NamesFlagged(r, 1, FALSE))
                            /\ Len(NamesFlagged(r, 1, TRUE)) + Len(NamesFlagged(r, 1, FALSE))
                                  = Len(Val(r))
      ]_vars

\* get_methods has returned the two callable names of an object, and
\* get_attributes of the same object waits for the reply to a message of its
\* own.
C24_Witness ==
    /\ result = [kind |-> "value", val |-> PyList(<<PyStr("volumes"), PyStr("is_meshed")>>)]
    /\ At("get_attributes", "receive")
    /\ Top.obj = 2
    /\ sent = 4
    /\ replies = <<SelfDirOfItem>>

\* The first connection is alive in log-capture mode, and so is the second.
BothCapture ==
    /\ log_check /\ channels > 0 /\ objects # <<>>
    /\ peer.state # "none" /\ peer.log_check

(* C25: two connections that were constructed without a log directive and
   are alive at the same time write their logs to different files: each has a
   path of its own, never one default path for both. *)
C25_DistinctLogPaths ==
    BothCapture => peer.path # cubit_arguments[Len(cubit_arguments)]

\* The text from index i on.
From(seq, i) == SubSeq(seq, i, Len(seq))

(* C26: with two connections in log-capture mode whose calls interleave, what
   a method call of one connection prints holds no text that the python2 of
   the other wrote, and a call of one connection never empties the log of
   text that a call in progress of the other has still to print. *)
C26_NoCrossTalk ==
    [][ BothCapture =>
          /\ \A i \in Len(printed) + 1 .. Len(printed') : printed'[i] > 0
          /\ (peer.state = "replied" /\ peer'.state = "idle") =>
                 \A i \in 1..Len(peer'.printed) : peer'.printed[i] < 0
          /\ (At("function", "truncate") /\ stack' # stack /\ peer.state = "replied") =>
                 \A i \in 1..Len(temp_log) :
                    temp_log[i] = PeerText(peer.n) =>
                       \E j \in 1..Len(temp_log') : temp_log'[j] = temp_log[i]
          /\ (peer.state = "idle" /\ peer'.state = "sent" /\ At("function", "forward")) =>
                 \A i \in 1..Len(temp_log) :
                    temp_log[i] = Top.call =>
                       \E j \in 1..Len(temp_log') : temp_log'[j] = temp_log[i]
      ]_vars

\* The calls that are no __del__: the constructor, a method call and the raw
\* messages of attribute access, isinstance and get_self_dir.
UnguardedOps == {"function", "get_attribute", "isinstance", "get_self_dir"}

\* The call in progress is inside send_and_return.
InSendAndReturn == stack # <<>> /\ Top.pc \in {"send", "receive"}

(* C27: when the channel is gone while a method call or a raw message other
   than delete is in send_and_return, the error of the transport reaches the
   caller: the call ends by raising it, nothing is sent (again), no reply is
   taken and no value is returned in its place. Only __del__ asks for the
   number of channels first. *)
C27_TransportErrorPropagates ==
    [][ /\ (InSendAndReturn /\ Top.op \in UnguardedOps /\ channels = 0
               /\ stack' # stack /\ Len(stack') <= Len(stack)) =>
              /\ stack' = Pop
              /\ result'.kind = "raise"
              /\ result'.val[2] = (IF Top.pc = "send" THEN "IOError" ELSE "EOFError")
              /\ ~Sends
              /\ UNCHANGED <<pending, replies, objects, callables, printed>>
        /\ (stack = <<>> /\ channels = 0 /\ stack' = <<>> /\ result' # result) =>
              /\ result'.kind = "raise" /\ result'.val[2] = "IOError"
              /\ ~Sends
        /\ (stack = <<>> /\ channels = 0 /\ stack' # <<>>) =>
              stack'[1].op \notin UnguardedOps \/ stack'[1].pc = "truncate"
      ]_vars

\* A method call has sent its message and the channel has gone since.
C27_Witness ==
    /\ At("function", "receive")
    /\ Top.call > 0
    /\ channels = 0
    /\ Len(stack) = 1

\* The call in progress is blocked in channel.receive().
Blocked ==
    stack # <<>> /\ Top.pc \in {"receive", "receive_parameters", "receive_init"}

(* C28: a call returns only after its reply has arrived. A call that waits in
   receive goes on only by taking a reply, or by the error of a closed
   channel: nothing else - no timeout, cancellation or second send - ends the
   wait, so that it lasts for ever when python2 hangs. When python2 replies to
   every message, every call, a delete of a release among them, returns in the
   end (within the MaxMsgs messages of a run). *)
C28_ReturnsAfterReply ==
    /\ [][ (Blocked /\ stack' # stack /\ Len(stack') <= Len(stack)) =>
              /\ TakesReply \/ channels = 0
              /\ ~Sends
          ]_vars
    /\ (Blocked ~> (stack = <<>> \/ sent = MaxMsgs))

\* The delete of a release waits for its reply, which python2 has still to
\* send.
C28_Witness ==
    /\ At("__del__", "receive")
    /\ channels > 0
    /\ pending # <<>> /\ replies = <<>>

\* m is one of the documented messages: a list that holds the map of the
\* parameters, "init" with the launch arguments, an object id with the name
\* of a method and the list of its arguments, or one of the raw requests.
IsDocumentedShape(m) ==
    /\ Tag(m) = "list"
    /\ LET items == Val(m)
           n == Len(items)
       IN \/ n = 1 /\ Tag(items[1]) = "dict"
          \/ n = 2 /\ items[1] = PyStr("init") /\ Tag(items[2]) = "list"
                   /\ \A i \in 1..Len(Val(items[2])) : Tag(Val(items[2])[i]) = "str"
          \/ n = 3 /\ IsId(items[1]) /\ Tag(items[2]) = "str" /\ Tag(items[3]) = "list"
          \/ n = 3 /\ items[1] = PyStr("iscallable") /\ IsId(items[2])
                   /\ Tag(items[3]) = "str"
          \/ n = 3 /\ items[1] = PyStr("isinstance") /\ IsId(items[2])
                   /\ Tag(items[3]) = "str"
          \/ n = 2 /\ items[1] = PyStr("get_self_dir") /\ IsId(items[2])
          \/ n = 2 /\ items[1] = PyStr("delete") /\ IsId(items[2])

(* C29: every message handed to the channel is a list of one of the
   documented shapes: [parameters], ["init", arguments], [id, name, arguments],
   ["iscallable", id, name], ["isinstance", id, name], ["get_self_dir", id],
   ["delete", id]; nothing of another shape is sent. *)
C29_MessageShapes ==
    [][ Sends => IsDocumentedShape(NewMsg.msg) ]_vars

(* C29, amended: the parameters are sent as the map itself, as the first
   message of the constructor and not inside a list; every other message is a
   list of one of the documented shapes ["init", arguments], [id, name,
   arguments], ["iscallable", id, name], ["isinstance", id, name],
   ["get_self_dir", id], ["delete", id]; nothing of another shape is sent. *)
C29_MessageShapesAmended ==
    [][ Sends =>
          IF NewMsg.op = "__init__" /\ NewMsg.n = 1
          THEN Tag(NewMsg.msg) = "dict"
          ELSE /\ IsDocumentedShape(NewMsg.msg)
               /\ Len(Val(NewMsg.msg)) > 1
               /\ (Val(NewMsg.msg)[1] = PyStr("init")) <=>
                     (NewMsg.op = "__init__" /\ NewMsg.n = 2)
      ]_vars

\* The message of a method call with an object among its arguments is on its
\* way, after the parameters and the init message.
C29_Witness ==
    /\ pending # <<>>
    /\ Kind(Head(pending).msg) = "method"
    /\ Val(Head(pending).msg)[3] = PyList(<<Handle(2)>>)
    /\ objects # <<>>

(* C30: releasing a proxy never raises, wherever the release falls relative
   to the end of the channel: before it, after it, and while it happens - also
   when the channel closes after __del__ has counted the channels and before
   it sends, or after it has sent and before it receives. *)
C30_ReleaseNeverRaises == del_raised = 0

\* The objects a frame works for: its self and the objects among its
\* arguments.
ObjectsOf(f) ==
    {p \in 1..Len(objects) : f.obj = p \/ Mentions(f.args, p)}

(* C31: once an object has been released, no message with its id is sent for
   it any more: a function that get_attribute returned keeps its object alive
   as long as the function exists, and an object among the arguments of a call
   stays alive until the message of the call is sent, so that no method call,
   raw request or argument names an object after the delete message of that
   same object. *)
C31_NoUseAfterRelease ==
    [][ /\ \A c \in callables' : ~objects'[c[1]].released
        /\ (Sends /\ Kind(NewMsg.msg) \notin {"delete", "parameters", "init"}) =>
              LET f == stack'[Len(stack')]
              IN /\ f.obj = NewMsg.obj
                 /\ \A p \in ObjectsOf(f) :
                       ~objects[p].released /\ objects[p].deletes = 0
      ]_vars

\* The delete message of a released object has been sent and answered, and
\* after it the message of a method call of another object is on its way.
C31_Witness ==
    /\ At("function", "receive")
    /\ pending # <<>> /\ Kind(Head(pending).msg) = "method"
    /\ \E p \in 1..Len(objects) : objects[p].deletes = 1 /\ p # Top.obj


\* C32: get_node_ids, as a method and as the function of utils, takes as the
\* temporary id the largest id of a node set (0 if there is none) plus one,
\* an id no node set has; it issues, in this order, the read of the id list,
\* the create command, the read of the nodes and the delete command, all for
\* that id; and when it returns the node sets are those of before the call.
C32_TemporaryNodeSet ==
    [][ (\E op \in NodeOps : stack # <<>> /\ Top.op = op) =>
          /\ (Top.pc = "create" /\ nodesets' # nodesets) =>
                /\ Top.call = Max(nodesets \cup {0}) + 1
                /\ Top.call \notin nodesets
                /\ nodesets' = nodesets \cup {Top.call}
          /\ (stack' = <<>> /\ result'.kind = "value") =>
                /\ Len(Val(Top.out)) = 4
                /\ Val(Top.out)[1] = PyStr("get_nodeset_id_list")
                /\ Val(Top.out)[2] = CreateCommand(Top.call, PyStr(Top.name), Top.obj)
                /\ Val(Top.out)[3] = PyTuple(<<PyStr("get_nodeset_nodes_inclusive"),
                                               PyInt(Top.call)>>)
                /\ Val(Top.out)[4] = DeleteCommand(Top.call)
                /\ nodesets' = {Val(Val(Top.args)[i]) : i \in 1..Len(Val(Top.args))}
                /\ Top.call \notin nodesets'
      ]_vars

C32_Witness ==
    /\ At("utils.get_node_ids", "return")
    /\ nodesets = {1, 3}
    /\ Top.call = 4
    /\ Top.ret = NodesOf(3, Top.obj)

\* The number of the message that the reply at the head of replies answers:
\* python2 answers every message once and in the order of the messages.
HeadReplyNumber == sent - Len(pending) - Len(replies) + 1

\* C33: requests and replies are never shifted against each other: when a
\* call (a release included) is completed, every message sent has been
\* answered and its reply taken, and the reply a method call takes and
\* returns is the reply to the message that this call has sent.
C33_PairingNeverShifted ==
    [][ /\ (channels' > 0 /\ stack # <<>> /\ stack' = Pop) =>
              pending' = <<>> /\ replies' = <<>>
        /\ (At("function", "receive") /\ TakesReply) =>
              HeadReplyNumber = Top.call
      ]_vars

RECURSIVE HandlesIn(_)
\* The handles in a message: the lists that cubit_item_to_id takes for an id.
HandlesIn(v) ==
    IF IsHandleList(v) THEN {v}
    ELSE IF IsSequence(v) THEN UNION {HandlesIn(Val(v)[i]) : i \in 1..Len(Val(v))}
    ELSE {}

\* The handles that the replies on this connection brought so far: each
\* became the cubit_id of a CubitObject of this connection.
HandlesReceived == {objects[p].cubit_id : p \in 1..Len(objects)}

\* C34: every handle in a message sent on a connection, as the receiver or
\* inside the arguments, came in a reply on that connection before: a handle
\* of one connection is not sent on another, also when the caller passes an
\* object of the second connection to a function of the first.
C34_HandlesStayOnTheirConnection ==
    [][ Sends => HandlesIn(NewMsg.msg) \subseteq HandlesReceived ]_vars

\* C35: no delete message with the handle of the root object is ever sent,
\* whatever python2 replies: also when a later call returns a handle with the
\* id of the root object and the CubitObject made from it is released.
C35_RootNeverDeleted ==
    [][ SendsKind({"delete"}) =>
          \A r \in Roots(objects) : Val(NewMsg.msg)[2] # objects[r].cubit_id ]_vars

\* C36: every CubitObject that exists carries a value that cubit_item_to_id
\* takes for an id: the constructor of CubitObject and of CubitObjectMain
\* raises TypeError for a value that cubit_item_to_id returns None for and
\* makes no object, and the __del__ of the object whose constructor raised
\* sends no message and leaves the channel and its replies as they are.
C36_ProxiesCarryHandles ==
    [][ /\ \A p \in 1..Len(objects') :
              ~IdRaises(objects'[p].cubit_id) /\ IsId(objects'[p].cubit_id)
        /\ (At("CubitObject.__init__", "call") /\ ~IdRaises(Top.args)
              /\ cubit_item_to_id(Top.args) = PyNone) =>
              /\ result' = [kind |-> "raise", val |-> Error("TypeError", Top.args)]
              /\ objects' = objects
        /\ At("__del__", "partial") =>
              /\ UNCHANGED <<channels, sent, pending, replies, objects>>
              /\ stack' = Pop
      ]_vars

C36_Witness ==
    /\ stack = <<>>
    /\ result = [kind |-> "raise", val |-> Error("TypeError", PyList(<<PyStr("42")>>))]
    /\ del_raised = 1
    /\ sent = 2 /\ Len(objects) = 2

\* C37: a name that the object has locally (cubit_id, cubit_connect,
\* isinstance, get_self_dir, get_methods, get_attributes, get_geometry_type,
\* get_node_ids) is resolved locally without a message; a message goes to
\* python2 only for a name that the local lookup does not find, so a remote
\* member with the name of a local one is not reached by attribute access.
C37_LocalNamesStayLocal ==
    [][ /\ SendsKind({"iscallable"}) =>
              /\ Val(Val(NewMsg.msg)[3]) \notin LocalNames
              /\ Val(Val(NewMsg.msg)[3]) = stack'[Len(stack')].name
        /\ \A name \in LocalNames :
              (stack = <<>> /\ result' = [kind |-> "local", val |-> PyStr(name)]
                 /\ result' # result) =>
                 UNCHANGED <<channels, sent, pending, replies, stack, objects>>
        /\ (stack = <<>> /\ stack' # <<>> /\ stack'[1].op = "get_attribute") =>
              stack'[1].name \notin LocalNames /\ Sends
      ]_vars

C37_Witness ==
    /\ result = [kind |-> "local", val |-> PyStr("get_node_ids")]
    /\ sent > 2
    /\ stack = <<>>
    /\ channels > 0

\* C38: the scan for a log directive recognizes the directive that the
\* constructor itself appends: a second CubitConnect made from the list to
\* which the first has appended its directive appends nothing, and the list
\* does not grow with each construction.
C38_InjectedDirectiveRecognized ==
    [][ (peer.state = "none" /\ peer'.state # "none" /\ peer'.shared /\ log_check) =>
          /\ peer'.arguments = cubit_arguments
          /\ cubit_arguments' = cubit_arguments
          /\ ~peer'.log_check
      ]_vars

\* C39: when the decoding of a list reply raises at some item, no object made
\* for an earlier handle of that reply stays: the caller gets the error only
\* and holds none of them, each of them is finalized, and its finalization
\* with an open channel goes on to send the one delete message of its id.
C39_FailedDecodeReleases ==
    /\ [][ /\ (At("function", "decode") /\ stack' = Pop /\ result'.kind = "raise") =>
                 /\ result'.val[1] = "error"
                 /\ \A p \in (Len(objects) + 1)..Len(objects') : p \in Orphans'
           /\ \A p \in Orphans : Releases(p) =>
                 /\ objects[p].deletes = 0
                 /\ channels > 0 => stack' = Append(stack, Frame("__del__", "send", p, ""))
           /\ \A p \in Orphans : objects'[p].held = FALSE
         ]_vars
    /\ (Orphans # {}) ~> (Orphans = {})

C39_Witness ==
    /\ result.kind = "raise" /\ result.val[2] = "TypeError"
    /\ \E p \in Ordinary :
          /\ objects[p].released /\ objects[p].deletes = 1
          /\ \A q \in Ordinary : q = p
    /\ stack = <<>>

\* The section word of a geometry type: vertex, curve, surface, volume.
SectionWord == <<"POINT", "LINE", "SURF", "VOL">>

\* The geometry kinds each coupling or contact type is listed for.
ListedKinds(bc) ==
    CASE bc = "beam_to_solid_volume_meshtying" -> {PyGeometry(4)}
      [] bc \in {"beam_to_solid_surface_meshtying", "beam_to_solid_surface_contact"} ->
             {PyGeometry(3)}
      [] bc = "point_coupling" -> {PyGeometry(1), FiniteElementNode}
      [] bc \in {"solid_to_solid_surface_contact", "fsi_coupling", "ale_dirichlet"} ->
             {PyGeometry(3), FiniteElementNode}
      [] OTHER -> {}

IsValueError(r) == r.kind = "raise" /\ r.val[1] = "error" /\ r.val[2] = "ValueError"

IsHeader(r) == r.kind = "value" /\ Tag(r.val) = "str" /\ Val(r.val) # ""

\* What the lookup of bc gives for the geometry types and, for the types
\* other than dirichlet and neumann, for everything else.
HeaderTable(bc, g, r) ==
    /\ IsHeader(r) \/ IsValueError(r)
    /\ (bc \in {"dirichlet", "neumann"} /\ g \in GeometryTypes) =>
          r = [kind |-> "value",
               val |-> PyStr("DESIGN " \o SectionWord[Val(g)] \o " " \o
                             (IF bc = "dirichlet" THEN "DIRICH" ELSE "NEUMANN") \o
                             " CONDITIONS")]
    /\ bc \notin {"dirichlet", "neumann"} =>
          IF g \in ListedKinds(bc) THEN IsHeader(r) ELSE IsValueError(r)

\* C40 as stated: the lookup of the section header returns a header or
\* raises ValueError; dirichlet and neumann return "DESIGN <POINT|LINE|SURF|
\* VOL> <DIRICH|NEUMANN> CONDITIONS" for vertex, curve, surface and volume;
\* each coupling or contact type returns its header for its listed kinds only;
\* every other pair raises ValueError.
C40_HeaderLookup ==
    [][ At("get_dat_bc_section_header", "call") =>
          /\ HeaderTable(Top.name, Top.args, result')
          /\ (Top.name \in {"dirichlet", "neumann"} /\ Top.args \notin GeometryTypes) =>
                IsValueError(result')
      ]_vars

\* C40, amended: as stated, but dirichlet and neumann return their header
\* also for the finite element object node, with POINT, and raise ValueError
\* for the other finite element objects.
C40_HeaderLookupAmended ==
    [][ At("get_dat_bc_section_header", "call") =>
          /\ HeaderTable(Top.name, Top.args, result')
          /\ (Top.name \in {"dirichlet", "neumann"} /\ Top.args \notin GeometryTypes) =>
                IF Top.args = FiniteElementNode
                THEN result' = [kind |-> "value",
                                val |-> PyStr("DESIGN POINT " \o
                                              (IF Top.name = "dirichlet" THEN "DIRICH"
                                               ELSE "NEUMANN") \o " CONDITIONS")]
                ELSE IsValueError(result')
      ]_vars

C40_Witness ==
    /\ stack = <<>>
    /\ result = [kind |-> "value", val |-> PyStr("DESIGN POINT NEUMANN CONDITIONS")]
    /\ channels = 0 /\ objects = <<>>
====
